---- MODULE Spec2Model ----
(***************************************************************************)
(* A model of the feature-flag client core: the in-memory feature store    *)
(* (feature_store.js, src/unnamed/part_000 lines 748-842) and the flag     *)
(* evaluator (evaluate_flag.js, src/unnamed/part_001 lines 81-426), the    *)
(* stream processor (streaming.js lines 1-213) and the client's variation  *)
(* calls (index.js, src/streaming.js lines 215-599).                       *)
(*                                                                         *)
(* JavaScript objects are functions from property names to values; a       *)
(* property that is not in the DOMAIN is undefined.  Objects that are      *)
(* shared by reference live in `heap`, and a reference is the name of a    *)
(* heap cell.                                                              *)
(***************************************************************************)
EXTENDS Integers, Sequences, FiniteSets, TLC

VARIABLES
  heap,        \* reference -> object: the objects reachable from the store and its caller
  allData,     \* feature_store.js `allData`: a reference into heap
  initCalled,  \* feature_store.js `initCalled`
  op,          \* the last operation performed and its arguments
  result,      \* what the last evaluate returned to its caller, until the caller takes it
  es,          \* streaming.js `es`: the state of the processor's EventSource
  cbCalls,     \* the arguments of the calls of start's `cb`, in order
  inflight,    \* the requestor calls whose callback has not run yet
  received,    \* how many stream events the EventSource has dispatched
  applied,     \* the events whose store write has been applied, in the order of the writes
  initComplete,\* index.js `initComplete`
  offline,     \* index.js `config.offline`
  failure,     \* index.js `failure`
  emitted,     \* what the client has emitted and logged, in order
  inCallback   \* where the callback of updateProcessor.start stands while it runs

\* The state of the update processor, and of the client around it
updateVars == <<es, cbCalls, inflight, received, applied>>

clientVars == <<initComplete, offline, failure, emitted, inCallback>>

vars == <<heap, allData, initCalled, op, result, updateVars, clientVars>>

-----------------------------------------------------------------------------
(* Bounds of the model *)

MaxVersion == 2

Versions == 1..MaxVersion

-----------------------------------------------------------------------------
(* JavaScript values *)

\* Values whose type varies at run time are records, one field naming the type
null == [null |-> TRUE]

undefined == [undefined |-> TRUE]

num(n) == [num |-> n]

str(s) == [str |-> s]

arr(a) == [arr |-> a]

\* a number that is not an integer, by its decimal rendering
float(digits) == [float |-> digits]

isNullish(v) == v = null \/ v = undefined

\* obj[p] of an object that may lack the property
field(obj, p) == IF p \in DOMAIN obj THEN obj[p] ELSE undefined

\* No evaluate result is waiting for the caller
NoResult == [none |-> TRUE]

EmptyObject == [p \in {} |-> null]

has(obj, p) == p \in DOMAIN obj

put(obj, p, v) == [q \in (DOMAIN obj) \cup {p} |-> IF q = p THEN v ELSE obj[q]]

\* String(kind) for a kind object, the property name `allData[kind]` uses
ObjectObject == "[object Object]"

-----------------------------------------------------------------------------
(* versioned_data_kind *)

features == [namespace |-> "features", streamApiPath |-> "/flags/"]

segments == [namespace |-> "segments", streamApiPath |-> "/segments/"]

dataKind == {features, segments}

\* The item keys the operations are exercised with, per kind
KeysOf(kind) == IF kind = features THEN {"foo", "bar"} ELSE {"foo"}

AllKeys == UNION {KeysOf(kind) : kind \in dataKind}

-----------------------------------------------------------------------------
(* Items *)

Item(key, version) == [key |-> key, version |-> version]

DeletedItem(key, version) == [key |-> key, version |-> version, deleted |-> TRUE]

isDeleted(item) == has(item, "deleted") /\ item.deleted = TRUE

\* The items upsert is called with
UpsertItems(kind) == {Item(k, v) : k \in KeysOf(kind), v \in Versions}

\* The snapshots init is called with: every entry of one snapshot carries the
\* same version; a namespace may be missing, and an entry may be a deleted item.
NamespaceMaps(kind, v) ==
  {[k \in S |-> IF k \in D THEN DeletedItem(k, v) ELSE Item(k, v)] :
     <<S, D>> \in {sd \in (SUBSET KeysOf(kind)) \X (SUBSET KeysOf(kind)) : sd[2] \subseteq sd[1]}}

SnapshotsOf(v) ==
  UNION {
    { [ns \in {features.namespace, segments.namespace} |-> IF ns = features.namespace THEN f ELSE s],
      [ns \in {features.namespace} |-> f],
      [ns \in {segments.namespace} |-> s] }
    : <<f, s>> \in NamespaceMaps(features, v) \X NamespaceMaps(segments, v) }
  \cup {EmptyObject}

Snapshots == UNION {SnapshotsOf(v) : v \in Versions}

-----------------------------------------------------------------------------
(* InMemoryFeatureStore *)

\* References: the object literal of line 749, and the object passed to init
ownRef == "allData0"
newDataRef == "newData"

clone(obj) == obj

itemsOf(data, kind) ==
  IF has(data, kind.namespace) THEN data[kind.namespace] ELSE EmptyObject

get(data, kind, key) ==
  LET items == itemsOf(data, kind) IN
  IF has(items, key)
    THEN IF isDeleted(items[key]) THEN null ELSE items[key]
    ELSE null

\* all without the tombstone filter of line 776
all_withDeleted(data, kind) ==
  IF has(data, kind.namespace) THEN data[kind.namespace] ELSE EmptyObject

all(data, kind) ==
  LET items == itemsOf(data, kind)
      live == {key \in DOMAIN items : ~isDeleted(items[key])}
  IN [key \in live |-> items[key]]

\* init that copies the snapshot's namespaces over the store's object, keeping the
\* namespaces the snapshot does not have
init_assign(newData) ==
  LET cur == heap[allData]
      merged == [ns \in (DOMAIN cur) \cup (DOMAIN newData) |->
                   IF ns \in DOMAIN newData THEN newData[ns] ELSE cur[ns]]
  IN [heap |-> (ownRef :> merged) @@ (newDataRef :> newData),
      allData |-> ownRef, initCalled |-> TRUE]

\* init that forgets to set initCalled
init_noFlag(newData) ==
  [heap |-> (newDataRef :> newData), allData |-> newDataRef, initCalled |-> initCalled]

init(newData) ==
  [heap |-> (newDataRef :> newData), allData |-> newDataRef, initCalled |-> TRUE]

delete(data, kind, key, version) ==
  LET present == has(data, kind.namespace)
      items == IF present THEN data[kind.namespace] ELSE EmptyObject
      deletedItem == [version |-> version, deleted |-> TRUE]
      written == IF has(items, key)
                   THEN IF items[key].version < version
                          THEN put(items, key, deletedItem)
                          ELSE items
                   ELSE put(items, key, deletedItem)
  IN IF present
       THEN put(data, kind.namespace, written)
       ELSE put(data, ObjectObject, written)

\* upsert comparing with <= instead of <
upsert_lte(data, kind, item) ==
  LET key == item.key
      items == IF has(data, kind.namespace) THEN data[kind.namespace] ELSE EmptyObject
      written == IF has(items, key)
                   THEN IF items[key].version <= item.version
                          THEN put(items, key, item)
                          ELSE items
                   ELSE put(items, key, item)
  IN put(data, kind.namespace, written)

\* upsert without the version check: the last writer wins
upsert_lastWriter(data, kind, item) ==
  LET items == IF has(data, kind.namespace) THEN data[kind.namespace] ELSE EmptyObject
  IN put(data, kind.namespace, put(items, item.key, item))

upsert(data, kind, item) ==
  LET key == item.key
      items == itemsOf(data, kind)
      written == IF has(items, key)
                   THEN IF items[key].version < item.version
                          THEN put(items, key, clone(item))
                          ELSE items
                   ELSE put(items, key, clone(item))
  IN put(data, kind.namespace, written)

initialized == initCalled = TRUE

-----------------------------------------------------------------------------
(* The store's operations as steps *)

store_init(newData) ==
  LET s == init(newData) IN
  /\ heap' = s.heap
  /\ allData' = s.allData
  /\ initCalled' = s.initCalled
  /\ op' = [name |-> "init", newData |-> newData]
  /\ UNCHANGED result
  /\ UNCHANGED <<updateVars, clientVars>>

store_upsert(kind, item) ==
  /\ heap' = [heap EXCEPT ![allData] = upsert(heap[allData], kind, item)]
  /\ op' = [name |-> "upsert", kind |-> kind, key |-> item.key, version |-> item.version]
  /\ UNCHANGED <<allData, initCalled, result>>
  /\ UNCHANGED <<updateVars, clientVars>>

store_delete(kind, key, version) ==
  /\ heap' = [heap EXCEPT ![allData] = delete(heap[allData], kind, key, version)]
  /\ op' = [name |-> "delete", kind |-> kind, key |-> key, version |-> version]
  /\ UNCHANGED <<allData, initCalled, result>>
  /\ UNCHANGED <<updateVars, clientVars>>

Init ==
  /\ heap = (ownRef :> EmptyObject)
  /\ allData = ownRef
  /\ initCalled = FALSE
  /\ op = [name |-> "new"]
  /\ result = NoResult
  /\ es = "none"
  /\ cbCalls = <<>>
  /\ inflight = {}
  /\ received = 0
  /\ applied = <<>>
  /\ initComplete = FALSE
  /\ offline = FALSE
  /\ failure = undefined
  /\ emitted = <<>>
  /\ inCallback = [at |-> "none"]

Next ==
  \/ \E newData \in Snapshots : store_init(newData)
  \/ \E kind \in dataKind : \E item \in UpsertItems(kind) : store_upsert(kind, item)
  \/ \E kind \in dataKind : \E key \in KeysOf(kind) : \E version \in Versions :
       store_delete(kind, key, version)

Spec == Init /\ [][Next]_vars

\* The object the store reads and writes
data == heap[allData]

-----------------------------------------------------------------------------
(* evaluate_flag.js.  Arrays are sequences: the JavaScript index i is i + 1 here *)

\* The nesting of evalInternal calls the call stack allows
MaxDepth == 4

builtins == {"key", "ip", "country", "email", "firstName", "lastName", "avatar", "name", "anonymous"}

userAttrsToStringifyForEvaluation == <<"key", "secondary">>

Error(message) == [message |-> message]

\* A thrown exception instead of a returned value
Throw(name) == [throws |-> name]

thrown(r) == has(r, "throws")

truthy(v) ==
  /\ ~isNullish(v)
  /\ (has(v, "str") => v.str # "")
  /\ (has(v, "num") => v.num # 0)
  /\ (has(v, "bool") => v.bool)

Digit(d) == <<"0", "1", "2", "3", "4", "5", "6", "7", "8", "9">>[d + 1]

RECURSIVE decimal(_)
\* '' + n for a natural number n
decimal(n) == IF n < 10 THEN Digit(n) ELSE decimal(n \div 10) \o Digit(n % 10)

\* String(value)
String(v) ==
  IF has(v, "str") THEN v.str
  ELSE IF has(v, "num") THEN (IF v.num < 0 THEN "-" \o decimal(0 - v.num) ELSE decimal(v.num))
  ELSE IF has(v, "bool") THEN (IF v.bool THEN "true" ELSE "false")
  ELSE IF v = null THEN "null" ELSE "undefined"

RECURSIVE stringifyFrom(_, _, _)
stringifyFrom(object, attrs, i) ==
  IF i > Len(attrs) THEN object
  ELSE LET attr == attrs[i]
           value == field(object, attr)
       IN IF has(value, "num") \/ has(value, "bool")
            THEN stringifyFrom(put(object, attr, str(String(value))), attrs, i + 1)
            ELSE stringifyFrom(object, attrs, i + 1)

\* utils/stringifyAttrs: a copy of the object with the listed attributes, when
\* numeric or boolean, turned into strings
stringifyAttrs(object, attrs) == stringifyFrom(object, attrs, 1)

\* EventFactory(false).newEvalEvent(flag, user, detail, defaultVal, prereqOfFlag)
newEvalEvent(flag, user, detail, prereqOfFlag) ==
  [kind |-> "feature", key |-> flag.key, version |-> field(flag, "version"),
   variation |-> detail.variationIndex, value |-> detail.value,
   prereqOf |-> prereqOfFlag.key, user |-> user]

\* operators.fn(op): the match function of an operator; unknown operators match nothing
operatorFn(opName, userValue, clauseValue) ==
  IF opName = "in" THEN userValue = clauseValue ELSE FALSE

errorResult(errorKind) ==
  [value |-> null, variationIndex |-> null,
   reason |-> [kind |-> "ERROR", errorKind |-> errorKind]]

\* getVariation without the lower bound test: a negative index reads variations[-1]
getVariation_noLowerBound(flag, index, reason) ==
  IF isNullish(index) \/ index.num >= Len(flag.variations)
    THEN [err |-> Error("Invalid variation index in flag"), detail |-> errorResult("MALFORMED_FLAG")]
    ELSE [err |-> null,
          detail |-> [value |-> IF index.num + 1 \in 1..Len(flag.variations)
                                  THEN flag.variations[index.num + 1] ELSE undefined,
                      variationIndex |-> index, reason |-> reason]]

getVariation(flag, index, reason) ==
  IF isNullish(index) \/ index.num < 0 \/ index.num >= Len(flag.variations)
    THEN [err |-> Error("Invalid variation index in flag"), detail |-> errorResult("MALFORMED_FLAG")]
    ELSE [err |-> null,
          detail |-> [value |-> flag.variations[index.num + 1], variationIndex |-> index,
                      reason |-> reason]]

getOffResult(flag, reason) ==
  IF isNullish(field(flag, "offVariation"))
    THEN [err |-> null, detail |-> [value |-> null, variationIndex |-> null, reason |-> reason]]
    ELSE getVariation(flag, flag.offVariation, reason)

\* Fetch an attribute value from a user object
userValue(user, attr) ==
  IF attr \in builtins /\ has(user, attr) THEN user[attr]
  ELSE IF has(user, "custom") /\ has(user.custom, attr) THEN user.custom[attr]
  ELSE null

\* bucketableStringValue that takes strings only
bucketableStringValue_stringsOnly(value) ==
  IF has(value, "str") THEN value ELSE null

bucketableStringValue(value) ==
  IF has(value, "str") THEN value
  ELSE IF has(value, "num") THEN str(String(value))
  ELSE null

\* The radix of the limbs that hold a 60-bit hash prefix or a Number: a value is
\* the tuple <<l0, l1, ...>> of its limbs, the least significant first
Base == 2^15

\* sha1Hex(hashKey).substring(0, 15): the first 15 hexadecimal digits of the SHA-1
\* digest, for the hash keys in use
sha1Hex15(hashKey) ==
  CASE hashKey = "hashKey.saltyA.userKeyA" -> <<27353, 8762, 6496, 13814>>  \* 6bec658111d6ad9
    [] hashKey = "hashKey.saltyA.userKeyB" -> <<16557, 10980, 11912, 21982>>  \* abbcba2157240ad
    [] hashKey = "hashKey.saltyA.userKeyC" -> <<7814, 28762, 7504, 3389>>  \* 1a7a754382d1e86
    [] hashKey = "hashKey.saltyA.33333" -> <<26288, 9020, 16385, 17947>>  \* 8c37000519e66b0
    [] hashKey = "hashKey.saltyA.userKeyA.999" -> <<5001, 25736, 16634, 30784>>  \* f08103eb2441389
    [] hashKey = "hashKey.saltyA." -> <<26354, 15574, 18046, 15889>>  \* 7c2319f9e6b66f2
    [] hashKey = "hashKey.saltyA.999" -> <<20599, 9451, 18543, 22224>>  \* ada121bd275d077
    [] hashKey = "segkey.salty.userKeyA" -> <<23857, 28192, 28017, 4775>>  \* 254fb5c77105d31
    [] hashKey = "segkey.salty.userKeyB" -> <<17167, 23957, 27323, 6270>>  \* 30fdaaeeecac30f
    [] hashKey = "segkey.salty.userKeyC" -> <<19423, 1700, 12196, 21047>>  \* a46ebe903524bdf
    [] hashKey = "segkey.salty." -> <<25531, 6134, 27484, 2776>>  \* 15b1ad70bfb63bb
    [] hashKey = "segkey.salty.999" -> <<9966, 32388, 10198, 27961>>  \* da729f5bf4226ee
    [] hashKey = "hashKey.saltyA.userKey" -> <<31530, 13600, 23167, 821>>  \* 066b69fda907b2a
    [] hashKey = "hashKey.saltyA.-7" -> <<3140, 851, 10925, 2292>>  \* 11e8aab41a98c44
    [] hashKey = "hashKey.saltyA.33333.999" -> <<4611, 11446, 14351, 28664>>  \* dff0e03d65b1203
    [] hashKey = "hashKey.saltyA.-7.999" -> <<7635, 25589, 2960, 12730>>  \* 63742e431fa9dd3
    [] hashKey = "hashKey.saltyA.userKey.999" -> <<11129, 1131, 5497, 23773>>  \* b9ba55e4235ab79

\* parseInt without rounding: the low bits that a Number cannot hold are cut off
parseInt16_truncated(n) ==
  LET e == Cardinality({k \in 8..14 : n[4] >= 2^k})
  IN <<n[1] - (n[1] % 2^e), n[2], n[3], n[4], 0>>

\* parseInt(prefix, 16): the Number nearest to the 60-bit integer n, which keeps 53
\* significant bits and rounds a tie to the even mantissa; five limbs, as the
\* result may be 2^60
parseInt16(n) ==
  LET e == Cardinality({k \in 8..14 : n[4] >= 2^k})
      q == 2^e
      r == n[1] % q
      up == e > 0 /\ (2 * r > q \/ (2 * r = q /\ (n[1] \div q) % 2 = 1))
      l0 == n[1] - r + (IF up THEN q ELSE 0)
      l1 == n[2] + (l0 \div Base)
      l2 == n[3] + (l1 \div Base)
      l3 == n[4] + (l2 \div Base)
  IN <<l0 % Base, l1 % Base, l2 % Base, l3 % Base, l3 \div Base>>

\* A Number of the bucket arithmetic: the tuple of the seven limbs of the integer
\* n that denotes n / 2^75, the least significant limb first.  Every Number from
\* 2^-22 to 2^30 is such a fraction
Zero == <<0, 0, 0, 0, 0, 0, 0>>

Limbs == Len(Zero)

One == <<0, 0, 0, 0, 0, 1, 0>>

\* x < y on Numbers
less(x, y) == \E k \in 1..Limbs : x[k] < y[k] /\ \A j \in (k + 1)..Limbs : x[j] = y[j]

\* The position of the highest bit that is set in limb k of x
topBitOfLimb(x, k) == 15 * (k - 1) + Cardinality({j \in 0..14 : x[k] >= 2^j}) - 1

\* The position of the highest bit that is set in the limbs ks of x, -1 for none
topBitIn(x, ks) ==
  IF ks = {} THEN 0 - 1 ELSE topBitOfLimb(x, CHOOSE i \in ks : \A j \in ks : j <= i)

\* The position of the highest bit of x that is set, -1 for zero
topBit(x) == topBitIn(x, {k \in 1..Limbs : x[k] # 0})

bitAt(x, i) == (x[(i \div 15) + 1] \div 2^(i % 15)) % 2

\* Some bit of x below position i is set
anyBitBelow(x, i) ==
  \/ \E k \in 1..(i \div 15) : x[k] # 0
  \/ x[(i \div 15) + 1] % 2^(i % 15) # 0

RECURSIVE sumFrom(_, _, _, _, _)
\* The limbs of x + y from limb k on, after the limbs `low` and with the carry
sumFrom(x, y, k, carry, low) ==
  IF k > Limbs THEN low
  ELSE sumFrom(x, y, k + 1, (x[k] + y[k] + carry) \div Base,
               Append(low, (x[k] + y[k] + carry) % Base))

\* x + y without rounding
exactSum(x, y) == sumFrom(x, y, 1, 0, <<>>)

\* Limb k of x without its bits below position 15 * a + c
cutLimb(x, k, a, c) ==
  IF k <= a THEN 0 ELSE IF k = a + 1 THEN x[k] - (x[k] % 2^c) ELSE x[k]

\* x without its bits below position 15 * a + c
cut(x, a, c) ==
  <<cutLimb(x, 1, a, c), cutLimb(x, 2, a, c), cutLimb(x, 3, a, c), cutLimb(x, 4, a, c),
    cutLimb(x, 5, a, c), cutLimb(x, 6, a, c), cutLimb(x, 7, a, c)>>

\* 2^(15 * a + c)
unit(a, c) ==
  <<IF a = 0 THEN 2^c ELSE 0, IF a = 1 THEN 2^c ELSE 0, IF a = 2 THEN 2^c ELSE 0,
    IF a = 3 THEN 2^c ELSE 0, IF a = 4 THEN 2^c ELSE 0, IF a = 5 THEN 2^c ELSE 0,
    IF a = 6 THEN 2^c ELSE 0>>

\* x rounded at bit d: the bits below d are dropped, and one unit of bit d is
\* added when they are more than half of it, or half of it and bit d is odd
roundAt(x, sticky, d) ==
  IF d <= 0 THEN x
  ELSE IF bitAt(x, d - 1) = 1 /\ (sticky \/ anyBitBelow(x, d - 1) \/ bitAt(x, d) = 1)
    THEN exactSum(cut(x, d \div 15, d % 15), unit(d \div 15, d % 15))
    ELSE cut(x, d \div 15, d % 15)

\* The Number nearest to x (and to x plus a fraction of its last bit, when sticky):
\* 53 significant bits are kept and a tie goes to the even mantissa
roundToNumber(x, sticky) == roundAt(x, sticky, topBit(x) - 52)

\* sum + q on Numbers (sum += ...)
plus(x, y) == roundToNumber(exactSum(x, y), FALSE)

RECURSIVE divideFrom(_, _, _, _)
\* Long division of the limbs n by 3125 from limb k down, with the remainder of
\* the limbs above and their quotient limbs `high`
divideFrom(n, k, rem, high) ==
  IF k = 0 THEN [quotient |-> high, rem |-> rem]
  ELSE divideFrom(n, k - 1, (rem * Base + n[k]) % 3125, <<(rem * Base + n[k]) \div 3125>> \o high)

roundQuotient(d) == roundToNumber(d.quotient, d.rem # 0)

\* The limbs of m * 2^60
timesTwoTo60(m) == <<0, 0, 0, 0, m % Base, (m \div Base) % Base, (m \div Base) \div Base>>

\* weight / 100000.0 for an integer weight from 0 to 2^20: the Number nearest to
\* weight * 2^70 / 3125
weightQuotient(weight) == roundQuotient(divideFrom(timesTwoTo60(weight * 2^10), Limbs, 0, <<>>))

\* lines 405-407 for the digest prefix: parseInt(prefix, 16) / 0xfffffffffffffff.
\* The literal 0xfffffffffffffff is the Number 2^60, so the quotient is exact
hashBucket(prefix) == <<0>> \o parseInt16(prefix) \o <<0>>

\* parseInt(sha1Hex(hashKey).substring(0, 15), 16) / 0xfffffffffffffff
sha1Bucket(hashKey) == hashBucket(sha1Hex15(hashKey))

\* Compute a percentile for a user
bucketUser(user, key, attr, salt) ==
  LET idHash == bucketableStringValue(userValue(user, attr)) IN
  IF idHash = null THEN Zero
  ELSE LET id == IF truthy(field(user, "secondary"))
                   THEN idHash.str \o "." \o String(user.secondary)
                   ELSE idHash.str
       IN sha1Bucket(key \o "." \o salt \o "." \o id)

\* bucketBy || 'key': the name of an attribute is a string, and a bucketBy that is
\* null or undefined is a property the object does not have
bucketByOf(o) == IF has(o, "bucketBy") /\ o.bucketBy # "" THEN o.bucketBy ELSE "key"

RECURSIVE rolloutFrom(_, _, _, _)

\* the loop with bucket <= sum: the end of each bucket range inclusive
rolloutFrom_inclusive(variations, i, sum, bucket) ==
  IF i > Len(variations) THEN variations[Len(variations)].variation
  ELSE LET next == plus(sum, weightQuotient(variations[i].weight)) IN
       IF ~less(next, bucket) THEN variations[i].variation
       ELSE rolloutFrom(variations, i + 1, next, bucket)

\* the loop of lines 360-366 from index i with the running sum, then line 373
rolloutFrom(variations, i, sum, bucket) ==
  IF i > Len(variations) THEN variations[Len(variations)].variation
  ELSE LET next == plus(sum, weightQuotient(variations[i].weight)) IN
       IF less(bucket, next) THEN variations[i].variation
       ELSE rolloutFrom(variations, i + 1, next, bucket)

\* Given a variation or rollout r, select the variation for the given user
variationForUser(r, user, flag) ==
  IF ~isNullish(field(r, "variation")) THEN r.variation
  ELSE LET rollout == field(r, "rollout") IN
       IF ~isNullish(rollout) /\ has(rollout, "variations") /\ Len(rollout.variations) > 0
         THEN LET bucketBy == bucketByOf(rollout)
                  bucket == bucketUser(user, flag.key, bucketBy, field(flag, "salt"))
              IN rolloutFrom(rollout.variations, 1, Zero, bucket)
         ELSE null

getResultForVariationOrRollout(r, user, flag, reason) ==
  IF isNullish(r)
    THEN [err |-> Error("Fallthrough variation undefined"), detail |-> errorResult("MALFORMED_FLAG")]
    ELSE LET index == variationForUser(r, user, flag) IN
         IF isNullish(index)
           THEN [err |-> Error("Variation/rollout object with no variation or rollout"),
                 detail |-> errorResult("MALFORMED_FLAG")]
           ELSE getVariation(flag, index, reason)

maybeNegate(c, b) == IF has(c, "negate") /\ c.negate THEN ~b ELSE b

matchAny(opName, value, values) ==
  \E i \in 1..Len(values) : operatorFn(opName, value, values[i])

clauseMatchUserNoSegments(c, user) ==
  LET uValue == userValue(user, c.attribute) IN
  IF isNullish(uValue) THEN FALSE
  ELSE IF has(uValue, "arr")
    THEN maybeNegate(c, \E i \in 1..Len(uValue.arr) : matchAny(c.op, uValue.arr[i], c.values))
    ELSE maybeNegate(c, matchAny(c.op, uValue, c.values))

segmentRuleMatchUser(rule, user, segmentKey, salt) ==
  LET clauses == IF has(rule, "clauses") THEN rule.clauses ELSE <<>> IN
  IF \E i \in 1..Len(clauses) : ~clauseMatchUserNoSegments(clauses[i], user) THEN FALSE
  ELSE IF ~has(rule, "weight") THEN TRUE
  ELSE less(bucketUser(user, segmentKey, bucketByOf(rule), salt), weightQuotient(rule.weight))

segmentMatchUser(segment, user) ==
  LET included == IF has(segment, "included") THEN segment.included ELSE <<>>
      excluded == IF has(segment, "excluded") THEN segment.excluded ELSE <<>>
      rules == IF has(segment, "rules") THEN segment.rules ELSE <<>>
  IN IF truthy(field(user, "key"))
       THEN IF \E i \in 1..Len(included) : included[i] = user.key THEN TRUE
            ELSE IF \E i \in 1..Len(excluded) : excluded[i] = user.key THEN FALSE
            ELSE \E i \in 1..Len(rules) :
                   segmentRuleMatchUser(rules[i], user, segment.key, field(segment, "salt"))
       ELSE FALSE

\* clauseMatchUser that gives up at the first value that names no segment
clauseMatchUser_stopAtMissing(c, user, d) ==
  IF c.op = "segmentMatch"
    THEN maybeNegate(c, \E i \in 1..Len(c.values) :
                          /\ \A j \in 1..i : get(d, segments, c.values[j].str) # null
                          /\ segmentMatchUser(get(d, segments, c.values[i].str), user))
    ELSE clauseMatchUserNoSegments(c, user)

clauseMatchUser(c, user, d) ==
  IF c.op = "segmentMatch"
    THEN maybeNegate(c, \E i \in 1..Len(c.values) :
                          LET segment == get(d, segments, c.values[i].str) IN
                          segment # null /\ segmentMatchUser(segment, user))
    ELSE clauseMatchUserNoSegments(c, user)

ruleMatchUser(r, user, d) ==
  IF ~has(r, "clauses") THEN FALSE
  ELSE \A i \in 1..Len(r.clauses) : clauseMatchUser(r.clauses[i], user, d)

\* lines 194-199: the index of the first rule that has the matched rule's id
ruleIndexOf(flag, rule) ==
  LET same == {i \in 1..Len(flag.rules) : field(flag.rules[i], "id") = field(rule, "id")}
  IN (CHOOSE i \in same : \A j \in same : i <= j) - 1

\* evalRules that tries the rules before the targets
evalRules_rulesFirst(flag, user, d) ==
  LET targets == IF has(flag, "targets") THEN flag.targets ELSE <<>>
      rules == IF has(flag, "rules") THEN flag.rules ELSE <<>>
      hit(i) == has(targets[i], "values")
                  /\ \E j \in 1..Len(targets[i].values) : user.key = targets[i].values[j]
      targetHits == {i \in 1..Len(targets) : hit(i)}
      ruleHits == {i \in 1..Len(rules) : ruleMatchUser(rules[i], user, d)}
  IN IF ruleHits # {}
       THEN LET i == CHOOSE i \in ruleHits : \A j \in ruleHits : i <= j
                rule == rules[i]
                reason == [kind |-> "RULE_MATCH", ruleId |-> field(rule, "id"),
                           ruleIndex |-> ruleIndexOf(flag, rule)]
            IN getResultForVariationOrRollout(rule, user, flag, reason)
     ELSE IF targetHits # {}
       THEN LET i == CHOOSE i \in targetHits : \A j \in targetHits : i <= j
            IN getVariation(flag, field(targets[i], "variation"), [kind |-> "TARGET_MATCH"])
     ELSE getResultForVariationOrRollout(field(flag, "fallthrough"), user, flag,
                                         [kind |-> "FALLTHROUGH"])

evalRules(flag, user, d) ==
  LET targets == IF has(flag, "targets") THEN flag.targets ELSE <<>>
      rules == IF has(flag, "rules") THEN flag.rules ELSE <<>>
      hit(i) == has(targets[i], "values")
                  /\ \E j \in 1..Len(targets[i].values) : user.key = targets[i].values[j]
      targetHits == {i \in 1..Len(targets) : hit(i)}
      ruleHits == {i \in 1..Len(rules) : ruleMatchUser(rules[i], user, d)}
  IN IF targetHits # {}
       THEN LET i == CHOOSE i \in targetHits : \A j \in targetHits : i <= j
            IN getVariation(flag, field(targets[i], "variation"), [kind |-> "TARGET_MATCH"])
     ELSE IF ruleHits # {}
       THEN LET i == CHOOSE i \in ruleHits : \A j \in ruleHits : i <= j
                rule == rules[i]
                reason == [kind |-> "RULE_MATCH", ruleId |-> field(rule, "id"),
                           ruleIndex |-> ruleIndexOf(flag, rule)]
            IN getResultForVariationOrRollout(rule, user, flag, reason)
     ELSE getResultForVariationOrRollout(field(flag, "fallthrough"), user, flag,
                                         [kind |-> "FALLTHROUGH"])

RECURSIVE evalInternal(_, _, _, _, _)
RECURSIVE checkPrerequisitesFrom(_, _, _, _, _, _)

\* checkPrerequisites that takes a prerequisite flag that is off for satisfied when
\* its off variation is the required one
checkPrerequisitesFrom_ignoreOn(i, flag, user, d, events, depth) ==
  IF i > Len(flag.prerequisites)
    THEN [err |-> null, reason |-> undefined, events |-> events]
  ELSE
    LET prereq == flag.prerequisites[i]
        prereqFlag == get(d, features, prereq.key)
        failed == [kind |-> "PREREQUISITE_FAILED", prerequisiteKey |-> prereq.key]
    IN IF prereqFlag = null
         THEN [err |-> Error("Could not retrieve prerequisite feature flag \"" \o prereq.key \o "\""),
               reason |-> failed, events |-> events]
       ELSE
         LET r == evalInternal(prereqFlag, user, d, events, depth + 1) IN
         IF thrown(r) THEN r
         ELSE
           LET pushed == Append(r.events, newEvalEvent(prereqFlag, user, r.detail, flag)) IN
           IF r.err # null
             THEN [err |-> r.err, reason |-> failed, events |-> pushed]
           ELSE IF r.detail.variationIndex # prereq.variation
             THEN [err |-> undefined, reason |-> failed, events |-> pushed]
           ELSE checkPrerequisitesFrom(i + 1, flag, user, d, pushed, depth)

\* checkPrerequisites that records an event only for a prerequisite that is satisfied
checkPrerequisitesFrom_eventOnSuccess(i, flag, user, d, events, depth) ==
  IF i > Len(flag.prerequisites)
    THEN [err |-> null, reason |-> undefined, events |-> events]
  ELSE
    LET prereq == flag.prerequisites[i]
        prereqFlag == get(d, features, prereq.key)
        failed == [kind |-> "PREREQUISITE_FAILED", prerequisiteKey |-> prereq.key]
    IN IF prereqFlag = null
         THEN [err |-> Error("Could not retrieve prerequisite feature flag \"" \o prereq.key \o "\""),
               reason |-> failed, events |-> events]
       ELSE
         LET r == evalInternal(prereqFlag, user, d, events, depth + 1) IN
         IF thrown(r) THEN r
         ELSE
           LET pushed == Append(r.events, newEvalEvent(prereqFlag, user, r.detail, flag)) IN
           IF r.err # null
             THEN [err |-> r.err, reason |-> failed, events |-> r.events]
           ELSE IF ~prereqFlag.on \/ r.detail.variationIndex # prereq.variation
             THEN [err |-> undefined, reason |-> failed, events |-> r.events]
           ELSE checkPrerequisitesFrom(i + 1, flag, user, d, pushed, depth)

\* The loop of checkPrerequisites from the i-th prerequisite on; events is the
\* array the evaluation appends to.  Returns {err, reason} and the events.
checkPrerequisitesFrom(i, flag, user, d, events, depth) ==
  IF i > Len(flag.prerequisites)
    THEN [err |-> null, reason |-> undefined, events |-> events]
  ELSE
    LET prereq == flag.prerequisites[i]
        prereqFlag == get(d, features, prereq.key)
        failed == [kind |-> "PREREQUISITE_FAILED", prerequisiteKey |-> prereq.key]
    IN IF prereqFlag = null
         THEN [err |-> Error("Could not retrieve prerequisite feature flag \"" \o prereq.key \o "\""),
               reason |-> failed, events |-> events]
       ELSE
         LET r == evalInternal(prereqFlag, user, d, events, depth + 1) IN
         IF thrown(r) THEN r
         ELSE
           LET pushed == Append(r.events, newEvalEvent(prereqFlag, user, r.detail, flag)) IN
           IF r.err # null
             THEN [err |-> r.err, reason |-> failed, events |-> pushed]
           ELSE IF ~prereqFlag.on \/ r.detail.variationIndex # prereq.variation
             THEN [err |-> undefined, reason |-> failed, events |-> pushed]
           ELSE checkPrerequisitesFrom(i + 1, flag, user, d, pushed, depth)

checkPrerequisites(flag, user, d, events, depth) ==
  IF has(flag, "prerequisites") /\ Len(flag.prerequisites) > 0
    THEN checkPrerequisitesFrom(1, flag, user, d, events, depth)
    ELSE [err |-> null, reason |-> undefined, events |-> events]

withEvents(r, events) == [err |-> r.err, detail |-> r.detail, events |-> events]

\* evalInternal that checks the prerequisites before it looks at flag.on
evalInternal_prereqFirst(flag, user, d, events, depth) ==
  IF depth > MaxDepth THEN Throw("RangeError")
  ELSE
    LET c == checkPrerequisites(flag, user, d, events, depth) IN
    IF thrown(c) THEN c
    ELSE IF ~flag.on THEN withEvents(getOffResult(flag, [kind |-> "OFF"]), c.events)
    ELSE IF truthy(c.err) \/ truthy(c.reason)
      THEN withEvents(getOffResult(flag, c.reason), c.events)
      ELSE withEvents(evalRules(flag, user, d), c.events)

\* depth is the number of evalInternal frames on the stack
evalInternal(flag, user, d, events, depth) ==
  IF depth > MaxDepth THEN Throw("RangeError")
  ELSE IF ~flag.on THEN withEvents(getOffResult(flag, [kind |-> "OFF"]), events)
  ELSE
    LET c == checkPrerequisites(flag, user, d, events, depth) IN
    IF thrown(c) THEN c
    ELSE IF truthy(c.err) \/ truthy(c.reason)
      THEN withEvents(getOffResult(flag, c.reason), c.events)
      ELSE withEvents(evalRules(flag, user, d), c.events)

evaluate(flag, user, d) ==
  IF isNullish(user) \/ isNullish(field(user, "key"))
    THEN [err |-> null, detail |-> errorResult("USER_NOT_SPECIFIED"), events |-> <<>>]
  ELSE IF isNullish(flag)
    THEN [err |-> null, detail |-> errorResult("FLAG_NOT_FOUND"), events |-> <<>>]
  ELSE
    LET sanitizedUser == stringifyAttrs(user, userAttrsToStringifyForEvaluation)
    IN evalInternal(flag, sanitizedUser, d, <<>>, 1)

-----------------------------------------------------------------------------
(* The flags, users and store contents evaluate is exercised with *)

Prereq(key, variation) == [key |-> key, variation |-> num(variation)]

KeyInClause(userKey) == [attribute |-> "key", op |-> "in", values |-> <<str(userKey)>>]

FixedRollout(variation) == [rollout |-> [variations |-> <<[variation |-> num(variation), weight |-> 100000]>>]]

\* Flags held by the store, the prerequisites of the evaluated flags: two variations
StoredFlag(key, on, fallthrough, prerequisites) ==
  [key |-> key, version |-> 2, salt |-> "saltyB", on |-> on, offVariation |-> num(1),
   variations |-> <<str("d"), str("e")>>, prerequisites |-> prerequisites,
   targets |-> <<>>, rules |-> <<>>, fallthrough |-> [variation |-> num(fallthrough)]]

StoredFoo ==
  {StoredFlag("foo", on, ft, pre) :
     on \in BOOLEAN, ft \in {0, 1, 2}, pre \in {<<>>, <<Prereq("bar", 1)>>}}
  \cup {DeletedItem("foo", 2)}

StoredBar == {StoredFlag("bar", TRUE, 1, pre) : pre \in {<<>>, <<Prereq("foo", 1)>>}}

EvalSnapshots ==
  {[ns \in {features.namespace} |-> [k \in {"foo", "bar"} |-> IF k = "foo" THEN f ELSE b]] :
     f \in StoredFoo, b \in StoredBar}
  \cup {[ns \in {features.namespace} |-> [k \in {"foo"} |-> f]] : f \in StoredFoo}
  \cup {[ns \in {features.namespace} |-> [k \in {"bar"} |-> b]] : b \in StoredBar}
  \cup {[ns \in {features.namespace} |-> EmptyObject]}

\* The flags evaluate is called with: three variations; every index of the flag may
\* be in range, out of range or missing
OffVariations == {undefined, num(0 - 1), num(1), num(3)}

Prerequisites == {<<>>, <<Prereq("foo", 1)>>, <<Prereq("foo", 1), Prereq("bar", 1)>>}

Targets ==
  {<<>>,
   <<[variation |-> num(2), values |-> <<str("userKeyA")>>]>>,
   <<[variation |-> num(3), values |-> <<str("userKeyA")>>]>>}

Rules ==
  {<<>>,
   <<[id |-> str("id0"), clauses |-> <<KeyInClause("userKeyB")>>, variation |-> num(0)]>>,
   <<[id |-> str("id0"), clauses |-> <<KeyInClause("userKeyB")>>, variation |-> num(0 - 1)]>>}

Fallthroughs ==
  {[variation |-> num(0)],
   [variation |-> num(3)],
   EmptyObject,
   [rollout |-> [variations |-> <<[variation |-> num(1), weight |-> 50000],
                                  [variation |-> num(2), weight |-> 50000]>>]],
   FixedRollout(5)}

EvalFlags ==
  {[key |-> "hashKey", version |-> 1, salt |-> "saltyA", on |-> on, offVariation |-> off,
    variations |-> <<str("a"), str("b"), str("c")>>, prerequisites |-> pre,
    targets |-> tg, rules |-> ru, fallthrough |-> ft] :
     on \in BOOLEAN, off \in OffVariations, pre \in Prerequisites,
     tg \in Targets, ru \in Rules, ft \in Fallthroughs}
  \cup {null}

Users == {null, [key |-> null], [key |-> str("userKeyA")], [key |-> str("userKeyB")]}

-----------------------------------------------------------------------------
(* A caller that fills the store and evaluates flags against it, one call at a time *)

eval_init(newData) ==
  /\ result = NoResult
  /\ store_init(newData)

call_evaluate(flag, user) ==
  /\ result = NoResult
  /\ result' = evaluate(flag, user, data)
  /\ op' = [name |-> "evaluate", flag |-> flag, user |-> user]
  /\ UNCHANGED <<heap, allData, initCalled>>
  /\ UNCHANGED <<updateVars, clientVars>>

take_result ==
  /\ result # NoResult
  /\ result' = NoResult
  /\ op' = [name |-> "return"]
  /\ UNCHANGED <<heap, allData, initCalled>>
  /\ UNCHANGED <<updateVars, clientVars>>

EvalNext ==
  \/ /\ result = NoResult
     /\ \E newData \in EvalSnapshots : eval_init(newData)
  \/ /\ result = NoResult
     /\ \E flag \in EvalFlags : \E user \in Users : call_evaluate(flag, user)
  \/ take_result

SpecEval == Init /\ [][EvalNext]_vars

-----------------------------------------------------------------------------
(* Evaluations of flags that are on and have no prerequisites: targets, rules
   with clauses on the user's key or on a segment, fallthrough rollouts *)

Target(variation, values) == [variation |-> num(variation), values |-> values]

Rule(id, userKey, variation) ==
  [id |-> str(id), clauses |-> <<KeyInClause(userKey)>>, variation |-> num(variation)]

RuleNoId(userKey, variation) ==
  [clauses |-> <<KeyInClause(userKey)>>, variation |-> num(variation)]

SegmentMatchClause(segmentKey) ==
  [attribute |-> "", op |-> "segmentMatch", values |-> <<str(segmentKey)>>]

Weighted(variation, weight) == [variation |-> num(variation), weight |-> weight]

MatchTargets ==
  {<<>>,
   <<Target(1, <<str("userKeyA")>>), Target(2, <<str("userKeyA"), str("userKeyB")>>)>>,
   <<[variation |-> num(0)], Target(2, <<str("userKeyB")>>)>>}

MatchRules ==
  {<<>>,
   <<Rule("id0", "userKeyB", 0), Rule("id1", "userKeyA", 1)>>,
   <<Rule("id0", "userKeyB", 0), Rule("id0", "userKeyA", 1)>>,
   <<RuleNoId("userKeyB", 0), RuleNoId("userKeyA", 1)>>,
   <<Rule("id0", "userKeyA", 2), Rule("id1", "userKeyA", 1)>>,
   <<[id |-> str("id0"), variation |-> num(2)], Rule("id1", "userKeyC", 1)>>,
   <<[id |-> str("seg"), clauses |-> <<SegmentMatchClause("segkey")>>, variation |-> num(2)]>>,
   <<[id |-> str("roll"), clauses |-> <<KeyInClause("userKeyC")>>,
      rollout |-> [variations |-> <<Weighted(0, 10343), Weighted(2, 1)>>]]>>}

MatchFallthroughs ==
  {[variation |-> num(0)],
   [rollout |-> [variations |-> <<Weighted(0, 42157), Weighted(1, 1), Weighted(2, 57842)>>]],
   [rollout |-> [variations |-> <<Weighted(0, 42158), Weighted(1, 57842)>>]],
   [rollout |-> [variations |-> <<Weighted(1, 0), Weighted(0, 10343)>>]],
   [rollout |-> [bucketBy |-> "email", variations |-> <<Weighted(1, 0), Weighted(0, 100000)>>]],
   [rollout |-> [bucketBy |-> "", variations |-> <<Weighted(0, 42157), Weighted(2, 57843)>>]],
   [rollout |-> [variations |-> <<>>]]}

MatchFlags ==
  {[key |-> "hashKey", version |-> 1, salt |-> "saltyA", on |-> TRUE, offVariation |-> num(1),
    variations |-> <<str("a"), str("b"), str("c")>>, prerequisites |-> pre,
    targets |-> tg, rules |-> ru, fallthrough |-> ft] :
     pre \in {<<>>, <<Prereq("foo", 1)>>},
     tg \in MatchTargets, ru \in MatchRules, ft \in MatchFallthroughs}
  \cup {null, undefined}

MatchUsers ==
  {null, undefined, EmptyObject, [key |-> null], [key |-> str("")], [key |-> num(999)],
   [key |-> str("userKeyA")], [key |-> str("userKeyB")], [key |-> str("userKeyC")]}

MatchSegments ==
  {[key |-> "segkey", version |-> 1, salt |-> "salty", included |-> <<str("userKeyA")>>,
    excluded |-> <<>>, rules |-> <<>>],
   [key |-> "segkey", version |-> 1, salt |-> "salty", included |-> <<>>,
    excluded |-> <<str("userKeyA")>>,
    rules |-> <<[clauses |-> <<>>, weight |-> 19138]>>],
   DeletedItem("segkey", 1)}

MatchSnapshots ==
  {[ns \in {features.namespace, segments.namespace} |->
      IF ns = segments.namespace THEN [k \in {"segkey"} |-> seg] ELSE feat] :
     seg \in MatchSegments,
     feat \in {EmptyObject, [k \in {"foo"} |-> StoredFlag("foo", TRUE, 1, <<>>)]}}
  \cup {[ns \in {features.namespace} |-> EmptyObject]}

MatchNext ==
  \/ /\ result = NoResult
     /\ \E newData \in MatchSnapshots : eval_init(newData)
  \/ /\ result = NoResult
     /\ \E flag \in MatchFlags : \E user \in MatchUsers : call_evaluate(flag, user)
  \/ take_result

SpecMatch == Init /\ [][MatchNext]_vars

-----------------------------------------------------------------------------
(* segmentMatchUser applied to the segments the store may hold and the users
   evaluate passes on: the key is a string *)

SegmentRules ==
  {<<>>,
   <<[clauses |-> <<KeyInClause("userKeyB")>>]>>,
   <<[clauses |-> <<>>, weight |-> 19137]>>,
   <<[clauses |-> <<>>, weight |-> 19138]>>,
   <<[clauses |-> <<KeyInClause("userKeyC")>>, weight |-> 0],
     [clauses |-> <<KeyInClause("userKeyC")>>, weight |-> 100000]>>,
   <<[clauses |-> <<KeyInClause("userKeyA"), KeyInClause("userKeyB")>>]>>}

Segments ==
  {[key |-> "segkey", version |-> 1, salt |-> "salty", included |-> inc, excluded |-> exc,
    rules |-> ru] :
     inc \in {<<>>, <<str("userKeyA")>>, <<str("userKeyC"), str("")>>},
     exc \in {<<>>, <<str("userKeyA")>>, <<str("userKeyB"), str("userKeyC")>>},
     ru \in SegmentRules}
  \cup {[key |-> "segkey", version |-> 1, salt |-> "salty"]}

SegmentUsers ==
  {[key |-> str("")], [key |-> str("userKeyA")], [key |-> str("userKeyB")],
   [key |-> str("userKeyC")]}

call_segmentMatchUser(segment, user) ==
  /\ result = NoResult
  /\ result' = [matched |-> segmentMatchUser(segment, user)]
  /\ op' = [name |-> "segmentMatchUser", segment |-> segment, user |-> user]
  /\ UNCHANGED <<heap, allData, initCalled>>
  /\ UNCHANGED <<updateVars, clientVars>>

SegmentNext ==
  \/ /\ result = NoResult
     /\ \E segment \in Segments : \E user \in SegmentUsers :
          call_segmentMatchUser(segment, user)
  \/ take_result

SpecSegment == Init /\ [][SegmentNext]_vars

-----------------------------------------------------------------------------
(* ruleMatchUser, clauseMatchUser and userValue applied to rules, clauses and    *)
(* users, against a store that holds the segment segkey, its tombstone, or none  *)

InClause(attribute, values) == [attribute |-> attribute, op |-> "in", values |-> values]

Negated(c, negate) == put(c, "negate", negate)

SegmentClause(values) == [attribute |-> "", op |-> "segmentMatch", values |-> values]

PlainClauses ==
  {InClause("name", <<str("Bob")>>), InClause("name", <<str("Al"), str("Bob")>>),
   InClause("legs", <<num(4)>>), InClause("secondary", <<str("s")>>),
   InClause("tags", <<str("b")>>), InClause("email", <<str("e")>>)}

SegmentClauses ==
  {SegmentClause(<<>>), SegmentClause(<<str("segkey")>>),
   SegmentClause(<<str("missing"), str("segkey")>>), SegmentClause(<<str("missing")>>)}

Clauses ==
  LET base == PlainClauses \cup SegmentClauses IN
  base \cup {Negated(c, n) : c \in base, n \in BOOLEAN}

ClauseUsers ==
  {[key |-> str("userKeyA")],
   [key |-> str("userKeyA"), name |-> str("Bob")],
   [key |-> str("userKeyB"), name |-> str("Al"), secondary |-> str("s")],
   [key |-> str("userKeyA"), custom |-> [legs |-> num(4), name |-> str("Bob"), email |-> str("e")]],
   [key |-> str("userKeyB"), name |-> str("Carl"),
    custom |-> [tags |-> arr(<<str("a"), str("b")>>), secondary |-> str("s")]]}

ClauseRules ==
  {EmptyObject, [clauses |-> <<>>],
   [clauses |-> <<InClause("name", <<str("Bob")>>)>>],
   [clauses |-> <<InClause("name", <<str("Bob")>>), InClause("legs", <<num(4)>>)>>],
   [clauses |-> <<InClause("name", <<str("Bob")>>), SegmentClause(<<str("segkey")>>)>>],
   [clauses |-> <<Negated(InClause("name", <<str("Bob")>>), TRUE)>>]}

ClauseAttrs == {"key", "name", "email", "secondary", "legs", "tags"}

ClauseSegments ==
  {[key |-> "segkey", version |-> 1, included |-> <<str("userKeyA")>>],
   [key |-> "segkey", version |-> 1, excluded |-> <<str("userKeyA")>>],
   DeletedItem("segkey", 1)}

ClauseSnapshots ==
  {[ns \in {segments.namespace} |-> [k \in {"segkey"} |-> seg]] : seg \in ClauseSegments}
  \cup {[ns \in {segments.namespace} |-> EmptyObject]}

call_ruleMatchUser(r, user) ==
  /\ result = NoResult
  /\ result' = [matched |-> ruleMatchUser(r, user, data)]
  /\ op' = [name |-> "ruleMatchUser", r |-> r, user |-> user]
  /\ UNCHANGED <<heap, allData, initCalled>>
  /\ UNCHANGED <<updateVars, clientVars>>

call_clauseMatchUser(c, user) ==
  /\ result = NoResult
  /\ result' = [matched |-> clauseMatchUser(c, user, data)]
  /\ op' = [name |-> "clauseMatchUser", c |-> c, user |-> user]
  /\ UNCHANGED <<heap, allData, initCalled>>
  /\ UNCHANGED <<updateVars, clientVars>>

call_userValue(user, attr) ==
  /\ result = NoResult
  /\ result' = [value |-> userValue(user, attr)]
  /\ op' = [name |-> "userValue", user |-> user, attr |-> attr]
  /\ UNCHANGED <<heap, allData, initCalled>>
  /\ UNCHANGED <<updateVars, clientVars>>

ClauseNext ==
  \/ /\ result = NoResult
     /\ \E newData \in ClauseSnapshots : eval_init(newData)
  \/ /\ result = NoResult
     /\ \E r \in ClauseRules : \E user \in ClauseUsers : call_ruleMatchUser(r, user)
  \/ /\ result = NoResult
     /\ \E c \in Clauses : \E user \in ClauseUsers : call_clauseMatchUser(c, user)
  \/ /\ result = NoResult
     /\ \E user \in ClauseUsers : \E attr \in ClauseAttrs : call_userValue(user, attr)
  \/ take_result

SpecClause == Init /\ [][ClauseNext]_vars

-----------------------------------------------------------------------------
(* bucketUser applied to users and attributes, and to the digest prefixes SHA-1
   may produce for hash keys whose digest is not tabulated *)

BucketUsers ==
  {[key |-> str("userKeyA")], [key |-> str("userKeyB")], [key |-> str("userKeyC")],
   [key |-> str("userKeyA"), secondary |-> str("999")],
   [key |-> str("userKey"),
    custom |-> [intAttr |-> num(33333), stringAttr |-> str("33333"),
                boolAttr |-> [bool |-> TRUE]]],
   [key |-> str("userKey"), secondary |-> str("999"),
    custom |-> [intAttr |-> num(33333), stringAttr |-> str("33333"),
                floatAttr |-> float("33.5")]],
   [key |-> str("userKey"), custom |-> [intAttr |-> num(0 - 7), stringAttr |-> str("-7")]],
   [key |-> str("userKey"), secondary |-> str("999"), custom |-> [intAttr |-> num(0 - 7)]]}

BucketAttrs == {"key", "intAttr", "stringAttr", "boolAttr", "floatAttr", "email"}

\* 60-bit prefixes at the ends of the range and around the places where parseInt
\* starts to round
Prefixes ==
  {<<l0, l1, l2, l3>> :
     l0 \in {0, 1, 63, 64, 65, Base - 65, Base - 64, Base - 63, Base - 1},
     l1 \in {0, Base - 1}, l2 \in {0, Base - 1},
     l3 \in {0, 2^8 - 1, 2^8, 2^14, Base - 1}}

call_bucketUser(user, attr) ==
  /\ result = NoResult
  /\ result' = [bucket |-> bucketUser(user, "hashKey", attr, "saltyA")]
  /\ op' = [name |-> "bucketUser", user |-> user, attr |-> attr]
  /\ UNCHANGED <<heap, allData, initCalled>>
  /\ UNCHANGED <<updateVars, clientVars>>

\* bucketUser from line 405 on, for a hash key whose digest starts with the prefix
call_hashBucket(prefix) ==
  /\ result = NoResult
  /\ result' = [bucket |-> hashBucket(prefix)]
  /\ op' = [name |-> "hashBucket", prefix |-> prefix]
  /\ UNCHANGED <<heap, allData, initCalled>>
  /\ UNCHANGED <<updateVars, clientVars>>

BucketNext ==
  \/ /\ result = NoResult
     /\ \E user \in BucketUsers : \E attr \in BucketAttrs : call_bucketUser(user, attr)
  \/ /\ result = NoResult
     /\ \E prefix \in Prefixes : call_hashBucket(prefix)
  \/ take_result

SpecBucket == Init /\ [][BucketNext]_vars

-----------------------------------------------------------------------------
(* The caller of init keeps its reference to the snapshot it passed, and writes
   to it later: newData[kind.namespace][item.key] = item *)

caller_put(kind, item) ==
  /\ initCalled
  /\ has(heap, newDataRef)
  /\ has(heap[newDataRef], kind.namespace)
  /\ heap' = [heap EXCEPT ![newDataRef] =
                put(@, kind.namespace, put(@[kind.namespace], item.key, item))]
  /\ op' = [name |-> "caller_put", kind |-> kind, key |-> item.key, version |-> item.version]
  /\ UNCHANGED <<allData, initCalled, result>>
  /\ UNCHANGED <<updateVars, clientVars>>

AliasNext ==
  \/ Next
  \/ \E kind \in dataKind : \E item \in UpsertItems(kind) : caller_put(kind, item)

SpecAlias == Init /\ [][AliasNext]_vars

-----------------------------------------------------------------------------
(* StreamProcessor (streaming.js lines 1-213) *)

MaxEvents == 3

\* The store as the processor's listeners find it and leave it
storeNow == [heap |-> heap, allData |-> allData, initCalled |-> initCalled]

featureStore_init(st, newData) == init(newData)

featureStore_upsert(st, kind, item) ==
  [st EXCEPT !.heap = [st.heap EXCEPT ![st.allData] = upsert(st.heap[st.allData], kind, item)]]

featureStore_delete(st, kind, key, version) ==
  [st EXCEPT !.heap = [st.heap EXCEPT ![st.allData] = delete(st.heap[st.allData], kind, key, version)]]

\* The text of an event or of a response: JSON text by the value it parses to,
\* text that is not JSON, and the empty text
Json(v) == [json |-> v]

Malformed == [malformed |-> TRUE]

JSONparse(text) == IF has(text, "json") THEN text.json ELSE Throw("SyntaxError")

\* errors.isHttpErrorRecoverable: 4xx other than 408 and 429 is not recoverable
isHttpErrorRecoverable(status) ==
  IF status >= 400 /\ status < 500 THEN status \in {408, 429} ELSE TRUE

LDStreamingError(message, code) ==
  [name |-> "LDStreamingError", message |-> message, code |-> code]

\* One call of cb: its argument, and the store as the callee finds it
cbCall(err, st) == [err |-> err, store |-> st]

\* What a listener or a callback did: the store it leaves, its calls of cb in
\* order, whether it called init, upsert or delete, and the requests it sent
Effect(st, cb, wrote, sent) == [store |-> st, cb |-> cb, wrote |-> wrote, sent |-> sent]

\* handleError that shuts the connection down on every error that has a status
handleError_anyStatus(err, st) ==
  IF has(err, "status") /\ err.status # 0
    THEN [return |-> FALSE,
          cb |-> <<cbCall(LDStreamingError(err.message, num(err.status)), st)>>]
    ELSE [return |-> TRUE, cb |-> <<>>]

\* The errorFilter of the EventSource: its return value and its calls of cb
handleError(err, st) ==
  IF has(err, "status") /\ err.status # 0 /\ ~isHttpErrorRecoverable(err.status)
    THEN [return |-> FALSE,
          cb |-> <<cbCall(LDStreamingError(err.message, num(err.status)), st)>>]
    ELSE [return |-> TRUE, cb |-> <<>>]

\* reportJsonError that only logs
reportJsonError_logOnly(st) == Effect(st, <<>>, FALSE, {})

reportJsonError(st) ==
  Effect(st, <<cbCall(LDStreamingError("Malformed JSON data in event stream", undefined), st)>>,
         FALSE, {})

unexpectedPayload(st) ==
  Effect(st, <<cbCall(LDStreamingError("Unexpected payload from event stream", undefined), st)>>,
         FALSE, {})

\* The keys a path is routed to
PathKeys == {"foo", "bar"}

getKeyFromPath(kind, path) ==
  IF \E key \in PathKeys : path = kind.streamApiPath \o key
    THEN str(CHOOSE key \in PathKeys : path = kind.streamApiPath \o key)
    ELSE null

\* for (const k in dataKind): the kinds in the order of the loop
kindsInOrder == <<features, segments>>

\* routed that sends a path of no kind to the flags
routed_defaultKind(path) ==
  IF getKeyFromPath(features, path) # null
    THEN [kind |-> features, key |-> getKeyFromPath(features, path).str]
  ELSE IF getKeyFromPath(segments, path) # null
    THEN [kind |-> segments, key |-> getKeyFromPath(segments, path).str]
  ELSE [kind |-> features, key |-> "foo"]

\* The first kind whose streamApiPath the path starts with, and the key: the
\* iteration of the loop that breaks, or null when the loop runs to its end
routed(path) ==
  LET hits == {i \in 1..Len(kindsInOrder) : getKeyFromPath(kindsInOrder[i], path) # null} IN
  IF hits = {} THEN null
  ELSE LET i == CHOOSE j \in hits : \A k \in hits : j <= k IN
       [kind |-> kindsInOrder[i], key |-> getKeyFromPath(kindsInOrder[i], path).str]

initDataOf(flags, segs) ==
  [ns \in {features.namespace, segments.namespace} |->
     IF ns = features.namespace THEN flags ELSE segs]

\* A put listener that calls cb before it calls init
putListener_cbFirst(e, st) ==
  IF ~truthy(e.data) THEN unexpectedPayload(st)
  ELSE LET parsed == JSONparse(e.data) IN
    IF thrown(parsed) THEN reportJsonError(st)
    ELSE Effect(featureStore_init(st, initDataOf(parsed.data.flags, parsed.data.segments)),
                <<cbCall(undefined, st)>>, TRUE, {})

putListener(e, st) ==
  IF ~truthy(e.data) THEN unexpectedPayload(st)
  ELSE LET parsed == JSONparse(e.data) IN
    IF thrown(parsed) THEN reportJsonError(st)
    ELSE LET written == featureStore_init(st, initDataOf(parsed.data.flags, parsed.data.segments))
         IN Effect(written, <<cbCall(undefined, written)>>, TRUE, {})

patchListener(e, st) ==
  IF ~truthy(e.data) THEN unexpectedPayload(st)
  ELSE LET patch == JSONparse(e.data) IN
    IF thrown(patch) THEN reportJsonError(st)
    ELSE LET r == routed(patch.path) IN
      IF r = null THEN Effect(st, <<>>, FALSE, {})
      ELSE Effect(featureStore_upsert(st, r.kind, patch.data), <<>>, TRUE, {})

deleteListener(e, st) ==
  IF ~truthy(e.data) THEN unexpectedPayload(st)
  ELSE LET parsed == JSONparse(e.data) IN
    IF thrown(parsed) THEN reportJsonError(st)
    ELSE LET r == routed(parsed.path) IN
      IF r = null THEN Effect(st, <<>>, FALSE, {})
      ELSE Effect(featureStore_delete(st, r.kind, r.key, parsed.version), <<>>, TRUE, {})

\* The requestor calls: which event sent them, and what they ask for
AllDataRequest(event) == [event |-> event, request |-> "requestAllData"]

ObjectRequest(event, kind, key) ==
  [event |-> event, request |-> "requestObject", kind |-> kind, key |-> key]

indirectPutListener(e, st, event) == Effect(st, <<>>, FALSE, {AllDataRequest(event)})

indirectPatchListener(e, st, event) ==
  IF ~truthy(e.data) THEN unexpectedPayload(st)
  ELSE LET r == routed(e.data.str) IN
    IF r = null THEN Effect(st, <<>>, FALSE, {})
    ELSE Effect(st, <<>>, FALSE, {ObjectRequest(event, r.kind, r.key)})

\* The callback of requestor.requestAllData (lines 162-171)
requestAllData_callback(err, resp, st) ==
  IF truthy(err) THEN Effect(st, <<cbCall(err, st)>>, FALSE, {})
  ELSE LET parsed == JSONparse(resp)
           written == featureStore_init(st, initDataOf(parsed.flags, parsed.segments))
       IN Effect(written, <<cbCall(undefined, written)>>, TRUE, {})

\* The callback of requestor.requestObject (lines 183-190)
requestObject_callback(req, err, resp, st) ==
  IF truthy(err)
    THEN Effect(st, <<cbCall(LDStreamingError("Unexpected error requesting " \o req.key \o " in "
                                                \o req.kind.namespace, undefined), st)>>,
                FALSE, {})
    ELSE Effect(featureStore_upsert(st, req.kind, JSONparse(resp)), <<>>, TRUE, {})

-----------------------------------------------------------------------------
(* A stream: the events and errors the EventSource delivers to the processor,    *)
(* the responses the requestor delivers, and stop                                *)

\* The errors of the EventSource: without a status, and with these statuses
Statuses == {401, 404, 408, 429, 500}

StreamErrors ==
  {[message |-> "stream error"]} \cup {[message |-> "stream error", status |-> s] : s \in Statuses}

StreamVersions == {1, 2}

StreamFlags == {EmptyObject, [k \in {"foo"} |-> Item("foo", 1)]}

StreamSegments == {EmptyObject}

PutEvents ==
  {[data |-> Json([data |-> [flags |-> f, segments |-> s]])] : f \in StreamFlags, s \in StreamSegments}
  \cup {[data |-> Malformed], [data |-> str("")]}

\* The paths of the events, and the versions that come with each
StreamPaths == {"/flags/foo", "/segments/foo", "/other/foo"}

VersionsAt(path) == IF path = "/flags/foo" THEN StreamVersions ELSE {1}

PatchEvents ==
  {[data |-> Json([path |-> p, data |-> Item("foo", v)])] : <<p, v>> \in
     {pv \in StreamPaths \X StreamVersions : pv[2] \in VersionsAt(pv[1])}}
  \cup {[data |-> Json([path |-> "/flags/foo", data |-> Item("bar", 1)])]}
  \cup {[data |-> Malformed], [data |-> str("")]}

DeleteEvents ==
  {[data |-> Json([path |-> p, version |-> v])] : <<p, v>> \in
     {pv \in StreamPaths \X StreamVersions : pv[2] \in VersionsAt(pv[1])}}
  \cup {[data |-> Malformed], [data |-> str("")]}

IndirectPatchEvents == {[data |-> str(p)] : p \in {"/flags/foo", "/other/foo"}} \cup {[data |-> str("")]}

RequestError == [message |-> "request failed", status |-> 500]

AllDataResponses == {Json([flags |-> f, segments |-> s]) : f \in StreamFlags, s \in StreamSegments}

\* The item of the response carries the key that was asked for, or another one
ObjectResponses(req) == {Json(Item(req.key, 2)), Json(Item("bar", 1))}

\* The processor takes the effect of a listener or callback that ran for `event`
takes(eff, event) ==
  /\ heap' = eff.store.heap
  /\ allData' = eff.store.allData
  /\ initCalled' = eff.store.initCalled
  /\ cbCalls' = cbCalls \o [i \in 1..Len(eff.cb) |-> eff.cb[i].err]
  /\ applied' = IF eff.wrote THEN Append(applied, event) ELSE applied

processor_start ==
  /\ es = "none"
  /\ es' = "open"
  /\ op' = [name |-> "start"]
  /\ UNCHANGED <<heap, allData, initCalled, result, cbCalls, inflight, received, applied, clientVars>>

es_error(err) ==
  LET h == handleError(err, storeNow) IN
  /\ es = "open"
  /\ es' = IF h.return THEN "open" ELSE "shutdown"
  /\ cbCalls' = cbCalls \o [i \in 1..Len(h.cb) |-> h.cb[i].err]
  /\ op' = [name |-> "error", err |-> err, return |-> h.return, cb |-> h.cb]
  /\ UNCHANGED <<heap, allData, initCalled, result, inflight, received, applied, clientVars>>

\* The EventSource dispatches one event to its listener
es_event(type, e, eff) ==
  /\ received' = received + 1
  /\ takes(eff, received + 1)
  /\ inflight' = inflight \cup eff.sent
  /\ op' = [name |-> type, e |-> e, cb |-> eff.cb, wrote |-> eff.wrote]
  /\ UNCHANGED <<result, es, clientVars>>

es_put(e) == es_event("put", e, putListener(e, storeNow))

es_patch(e) == es_event("patch", e, patchListener(e, storeNow))

es_delete(e) == es_event("delete", e, deleteListener(e, storeNow))

es_indirect_put == es_event("indirect/put", EmptyObject, indirectPutListener(EmptyObject, storeNow, received + 1))

es_indirect_patch(e) == es_event("indirect/patch", e, indirectPatchListener(e, storeNow, received + 1))

\* The requestor answers one of the calls in flight
requestor_answers(req, err, resp) ==
  LET eff == IF req.request = "requestAllData"
               THEN requestAllData_callback(err, resp, storeNow)
               ELSE requestObject_callback(req, err, resp, storeNow)
  IN
  /\ takes(eff, req.event)
  /\ inflight' = inflight \ {req}
  /\ op' = [name |-> req.request, req |-> req, event |-> req.event, err |-> err, cb |-> eff.cb,
            wrote |-> eff.wrote, es |-> es]
  /\ UNCHANGED <<result, es, received, clientVars>>

processor_stop ==
  /\ es # "none"
  /\ es' = "closed"
  /\ op' = [name |-> "stop"]
  /\ UNCHANGED <<heap, allData, initCalled, result, cbCalls, inflight, received, applied, clientVars>>

StreamNext ==
  \/ processor_start
  \/ es = "open" /\ \E err \in StreamErrors : es_error(err)
  \/ es = "open" /\ received < MaxEvents /\ \E e \in PutEvents : es_put(e)
  \/ es = "open" /\ received < MaxEvents /\ \E e \in PatchEvents : es_patch(e)
  \/ es = "open" /\ received < MaxEvents /\ \E e \in DeleteEvents : es_delete(e)
  \/ es = "open" /\ received < MaxEvents /\ es_indirect_put
  \/ es = "open" /\ received < MaxEvents /\ \E e \in IndirectPatchEvents : es_indirect_patch(e)
  \/ \E req \in inflight :
       \/ requestor_answers(req, RequestError, undefined)
       \/ \E resp \in (IF req.request = "requestAllData" THEN AllDataResponses ELSE ObjectResponses(req)) :
            requestor_answers(req, null, resp)
  \/ processor_stop

SpecStream == Init /\ [][StreamNext]_vars

-----------------------------------------------------------------------------
(* The client: variation and variationDetail (index.js, streaming.js lines 335-472) *)

\* errorResult of index.js: the detail of an evaluation that failed
client_errorResult(errorKind, defaultVal) ==
  [value |-> defaultVal, variationIndex |-> null,
   reason |-> [kind |-> "ERROR", errorKind |-> errorKind]]

\* LDClientError of errors.js
LDClientError(message) == [name |-> "LDClientError", message |-> message]

\* What a function of the client did: the detail it returns, and the error it
\* handed to maybeReportError (null when it reported none)
Outcome(detail, reported) == [detail |-> detail, reported |-> reported]

\* err.message ? ': ' + err.message : err, for the exception evaluate raises: the
\* RangeError of a prerequisite cycle, whose message is the engine's
thrownMessage(r) ==
  CASE r.throws = "RangeError" -> ": Maximum call stack size exceeded"

\* afterEvaluate that returns the detail of evaluate as it is
afterEvaluate_keepValue(r, defaultVal) ==
  IF thrown(r)
    THEN Outcome(undefined,
                 LDClientError("Encountered error evaluating feature flag:" \o thrownMessage(r)))
    ELSE Outcome(r.detail, null)

\* Lines 454-471 of variationInternal, for the result r of evaluate: the detail it
\* returns, undefined when its catch block ran, which ends without a return
\* statement; and the error it reports
afterEvaluate(r, defaultVal) ==
  IF thrown(r)
    THEN Outcome(undefined,
                 LDClientError("Encountered error evaluating feature flag:" \o thrownMessage(r)))
  ELSE IF r.detail.variationIndex = null
    THEN Outcome([r.detail EXCEPT !.value = defaultVal], null)
    ELSE Outcome(r.detail, null)

\* Lines 437-472 of variationInternal, for the flag the store gave
variationOfFlag(flag, key, user, defaultVal, st) ==
    IF ~truthy(flag)
      THEN Outcome(client_errorResult("FLAG_NOT_FOUND", defaultVal),
                   LDClientError("Unknown feature flag \"" \o key.str \o "\"; returning default value"))
    ELSE IF ~truthy(user)
      THEN Outcome(client_errorResult("USER_NOT_SPECIFIED", defaultVal),
                   LDClientError("No user specified. Returning default value."))
    ELSE afterEvaluate(evaluate(flag, user, st.heap[st.allData]), defaultVal)

\* variationInternal: the detail it returns and the error it reports
variationInternal(key, user, defaultVal, st, off) ==
  IF off THEN Outcome(client_errorResult("CLIENT_NOT_READY", defaultVal), null)
  ELSE IF ~truthy(key)
    THEN Outcome(client_errorResult("FLAG_NOT_FOUND", defaultVal),
                 LDClientError("No feature flag key specified. Returning default value."))
  ELSE variationOfFlag(get(st.heap[st.allData], features, key.str), key, user, defaultVal, st)

notReadyError ==
  LDClientError("Variation called before LaunchDarkly client initialization completed (did you wait for the 'ready' event?) - using default value")

\* evaluateIfPossible that does not ask the store before the client is ready
evaluateIfPossible_readyOnly(key, user, defaultVal, st, ready, off) ==
  IF ~ready
    THEN Outcome(client_errorResult("CLIENT_NOT_READY", defaultVal), notReadyError)
    ELSE variationInternal(key, user, defaultVal, st, off)

\* Only a client that is not ready and whose store is not initialised answers
\* without variationInternal; the two other branches make the same call of it
evaluateIfPossible(key, user, defaultVal, st, ready, off) ==
  IF ~ready /\ ~st.initCalled
    THEN Outcome(client_errorResult("CLIENT_NOT_READY", defaultVal), notReadyError)
    ELSE variationInternal(key, user, defaultVal, st, off)

\* What a call hands to its caller: a value, or an exception
returned(v) == [returned |-> v]

\* What a call of the client did: what it hands to its caller, and the error it
\* handed to maybeReportError
Call(out, reported) == [out |-> out, reported |-> reported]

\* client.variationDetail hands the detail of evaluateIfPossible to its caller
detailCall(e) == Call(returned(e.detail), e.reported)

\* evaluateIfPossible(...).value: reading .value of undefined throws a TypeError
valueCall(e) ==
  Call(IF e.detail = undefined THEN Throw("TypeError") ELSE returned(e.detail.value), e.reported)

variationDetail(key, user, defaultVal, st, ready, off) ==
  detailCall(evaluateIfPossible(key, user, defaultVal, st, ready, off))

variation(key, user, defaultVal, st, ready, off) ==
  valueCall(evaluateIfPossible(key, user, defaultVal, st, ready, off))

-----------------------------------------------------------------------------
(* An application: it fills the store, the update processor signals, and the     *)
(* application asks for variations, one call at a time                            *)

ClientFlag(key, on, off, fallthrough, prerequisites) ==
  [key |-> key, version |-> 1, salt |-> "saltyB", on |-> on, offVariation |-> off,
   variations |-> <<str("d"), str("e")>>, prerequisites |-> prerequisites,
   targets |-> <<>>, rules |-> <<>>, fallthrough |-> [variation |-> num(fallthrough)]]

\* foo: on or off, with and without offVariation, fallthrough in and out of range,
\* without prerequisite, with the prerequisite bar, and as its own prerequisite
ClientFoo ==
  {ClientFlag("foo", on, off, ft, pre) :
     on \in BOOLEAN, off \in {null, num(1)}, ft \in {0, 2},
     pre \in {<<>>, <<Prereq("bar", 1)>>, <<Prereq("foo", 0)>>}}
  \cup {DeletedItem("foo", 2)}

ClientBar == ClientFlag("bar", TRUE, num(1), 1, <<>>)

\* bar with its fallthrough out of range
ClientBarMalformed == ClientFlag("bar", TRUE, num(1), 2, <<>>)

ClientSnapshots ==
  {[ns \in {features.namespace} |-> [k \in {"foo", "bar"} |-> IF k = "foo" THEN f ELSE ClientBar]] :
     f \in ClientFoo}
  \cup {[ns \in {features.namespace} |->
           [k \in {"foo", "bar"} |->
              IF k = "foo" THEN ClientFlag("foo", TRUE, num(1), 0, <<Prereq("foo", 0)>>)
              ELSE ClientBarMalformed]]}
  \cup {[ns \in {features.namespace} |-> EmptyObject]}

ClientKeys == {str("foo"), str("nope"), str("")}

ClientUsers == {null, [key |-> null], [key |-> str("userKeyA")]}

ClientDefaults == {str("dflt"), null}

\* What the update processor passes to the callback of start: nothing, the error
\* of a rejected SDK key, and the error of a malformed event
StartErrors ==
  {null, LDStreamingError("stream error", num(401)),
   LDStreamingError("Malformed JSON data in event stream", undefined)}

ClientInit ==
  /\ heap = (ownRef :> EmptyObject)
  /\ allData = ownRef
  /\ initCalled = FALSE
  /\ op = [name |-> "new"]
  /\ result = NoResult
  /\ es = "none"
  /\ cbCalls = <<>>
  /\ inflight = {}
  /\ received = 0
  /\ applied = <<>>
  /\ initComplete = FALSE
  /\ offline \in BOOLEAN
  /\ failure = undefined
  /\ emitted = <<>>
  /\ inCallback = [at |-> "none"]

MaxEmitted == 4

\* maybeReportError: the emitter's error event if it has a listener, else the logger
maybeReportError(error, listening) ==
  IF ~truthy(error) THEN <<>>
  ELSE IF listening THEN <<"error">> ELSE <<"logger.error">>

\* The error the callback reports for the err it is given
reportedError(err) ==
  IF \/ has(err, "status") /\ err.status = 401
     \/ has(err, "code") /\ err.code = num(401)
    THEN Error("Authentication failed. Double check your SDK key.")
    ELSE err

\* Neither the callback of updateProcessor.start nor a call of allFlagsState is
\* running a listener
NotRunning == [at |-> "none"]

\* A callback that emits ready at every success
start_callback_alwaysReady(err, listening) ==
  /\ result = NoResult
  /\ inCallback = NotRunning
  /\ Len(emitted) < MaxEmitted
  /\ IF truthy(err)
       THEN /\ emitted' = emitted \o maybeReportError(reportedError(err), listening)
            /\ inCallback' = [at |-> "emit failed", err |-> err, listening |-> listening]
            /\ UNCHANGED initComplete
       ELSE /\ initComplete' = TRUE
            /\ emitted' = Append(emitted, "ready")
            /\ UNCHANGED inCallback
  /\ op' = [name |-> "start_callback", err |-> err, listening |-> listening]
  /\ UNCHANGED <<heap, allData, initCalled, result, updateVars, offline, failure>>

\* The callback the client passes to updateProcessor.start, up to the return of
\* maybeReportError (line 344) when err is given, and whole when it is not;
\* `listening` says whether the emitter has a listener for error at that moment.
\* The listeners of error and of failed run inside the callback, so what they call
\* finds the client between two statements of it
start_callback(err, listening) ==
  /\ result = NoResult
  /\ inCallback = NotRunning
  /\ Len(emitted) < MaxEmitted
  /\ IF truthy(err)
       THEN /\ emitted' = emitted \o maybeReportError(reportedError(err), listening)
            /\ inCallback' = [at |-> "emit failed", err |-> err, listening |-> listening]
            /\ UNCHANGED initComplete
       ELSE IF ~initComplete
         THEN /\ initComplete' = TRUE
              /\ emitted' = Append(emitted, "ready")
              /\ UNCHANGED inCallback
         ELSE UNCHANGED <<initComplete, emitted, inCallback>>
  /\ op' = [name |-> "start_callback", err |-> err, listening |-> listening]
  /\ UNCHANGED <<heap, allData, initCalled, result, updateVars, offline, failure>>

\* client.emit('failed', error) of the running callback (line 345)
start_callback_emit_failed ==
  /\ inCallback.at = "emit failed"
  /\ emitted' = Append(emitted, "failed")
  /\ inCallback' = [inCallback EXCEPT !.at = "assign failure"]
  /\ op' = [name |-> "start_callback", err |-> inCallback.err, listening |-> inCallback.listening]
  /\ UNCHANGED <<heap, allData, initCalled, result, updateVars, initComplete, offline, failure>>

\* failure = error of the running callback (line 346), which then returns
start_callback_assign_failure ==
  /\ inCallback.at = "assign failure"
  /\ failure' = reportedError(inCallback.err)
  /\ inCallback' = NotRunning
  /\ op' = [name |-> "start_callback", err |-> inCallback.err, listening |-> inCallback.listening]
  /\ UNCHANGED <<heap, allData, initCalled, result, updateVars, initComplete, offline, emitted>>

\* client.initialized
initialized_client == initComplete

\* client.waitForInitialization: the state of the promise it returns
waitForInitialization ==
  /\ result = NoResult
  /\ result' = (IF initComplete THEN [promise |-> "resolved"]
                ELSE IF truthy(failure) THEN [promise |-> "rejected", reason |-> failure]
                ELSE [promise |-> "pending"])
  /\ op' = [name |-> "waitForInitialization"]
  /\ UNCHANGED <<heap, allData, initCalled, updateVars, clientVars>>

\* client.variationDetail; `listening` says whether the emitter has a listener
\* for error at that moment
client_variationDetail(key, user, defaultVal, listening) ==
  /\ result = NoResult
  /\ Len(emitted) < MaxEmitted
  /\ \E call \in {variationDetail(key, user, defaultVal, storeNow, initComplete, offline)} :
       /\ result' = call.out
       /\ emitted' = emitted \o maybeReportError(call.reported, listening)
  /\ op' = [name |-> "variationDetail", key |-> key, user |-> user, defaultVal |-> defaultVal,
            listening |-> listening]
  /\ UNCHANGED <<heap, allData, initCalled, updateVars, initComplete, offline, failure, inCallback>>

client_variation(key, user, defaultVal, listening) ==
  /\ result = NoResult
  /\ Len(emitted) < MaxEmitted
  /\ \E call \in {variation(key, user, defaultVal, storeNow, initComplete, offline)} :
       /\ result' = call.out
       /\ emitted' = emitted \o maybeReportError(call.reported, listening)
  /\ op' = [name |-> "variation", key |-> key, user |-> user, defaultVal |-> defaultVal,
            listening |-> listening]
  /\ UNCHANGED <<heap, allData, initCalled, updateVars, initComplete, offline, failure, inCallback>>

\* FlagsStateBuilder(valid) with the flags it was given by addFlag: for each key
\* the value, the variation index and the reason
FlagsState(valid, flags) == [valid |-> valid, flags |-> flags]

\* Where the loop of allFlagsState stands: the flags given to the builder, the
\* errors handed to maybeReportError since the loop was last entered, in order,
\* and the flags of Object.values(flags) still to take
Added(flags, reported, rest) == [flags |-> flags, reported |-> reported, rest |-> rest]

\* Lines 499-510 for one flag and the result r of its evaluation: an error is
\* reported, and the flag is given to the builder.  The builder is local to the
\* call, so that the flag is added before or after the report shows nowhere.  An
\* exception of evaluate leaves the loop with the errors reported before it
addFlag(done, flag, r, options) ==
  IF thrown(r) THEN [throws |-> r.throws, reported |-> done.reported]
  ELSE Added(put(done.flags, flag.key,
                 [value |-> r.detail.value, variationIndex |-> r.detail.variationIndex,
                  reason |-> IF options.withReasons THEN r.detail.reason ELSE null]),
             IF r.err # null
               THEN Append(done.reported,
                           Error("Error for feature flag \"" \o flag.key
                                   \o "\" while evaluating all flags: Error: " \o r.err.message))
               ELSE done.reported,
             Tail(done.rest))

RECURSIVE addFlagsFrom(_, _, _, _, _)
\* The loop of lines 495-511 over the flags still to take.  Each flag is evaluated
\* against the store as it is then; an exception of evaluate ends the loop and
\* the call.  When the emitter has a listener for error (`listening`), the loop is
\* followed up to and including the first flag whose evaluation reports an
\* error: the listener runs inside maybeReportError, before the next flag.
\* Without a listener the errors go to the logger and the loop goes on
addFlagsFrom(user, st, options, listening, done) ==
  IF thrown(done) THEN done
  ELSE IF done.rest = <<>> \/ (listening /\ done.reported # <<>>) THEN done
  ELSE IF options.clientSideOnly
            /\ ~(has(Head(done.rest), "clientSide") /\ Head(done.rest).clientSide = TRUE)
    THEN addFlagsFrom(user, st, options, listening, [done EXCEPT !.rest = Tail(done.rest)])
    ELSE addFlagsFrom(user, st, options, listening,
                      addFlag(done, Head(done.rest),
                              evaluate(Head(done.rest), user, st.heap[st.allData]), options))

\* allValues of the flags state: the value of each flag
allValues(state) == [key \in DOMAIN state.flags |-> state.flags[key].value]

\* What client.allFlagsState returns for the state, and client.allFlags (and its
\* alias all_flags), which returns allFlagsState(user).allValues()
allFlags(values, state) == returned(IF values THEN allValues(state) ELSE state)

RECURSIVE ObjectValues(_, _)
\* What Object.values may give for the flags under the keys: the flags in the
\* order in which their keys were added to the object, which the heap does not keep
ObjectValues(flags, keys) ==
  IF keys = {} THEN {<<>>}
  ELSE UNION {{<<flags[key]>> \o rest : rest \in ObjectValues(flags, keys \ {key})} :
                key \in keys}

RECURSIVE reports(_, _)
\* What maybeReportError does with each of the errors, in order
reports(errors, listening) ==
  IF errors = <<>> THEN <<>>
  ELSE maybeReportError(Head(errors), listening) \o reports(Tail(errors), listening)

NoOptions == [clientSideOnly |-> FALSE, withReasons |-> FALSE]

\* A call of client.allFlagsState(user, options), or of client.allFlags(user) when
\* `values`, that stands at the flags `rest` of its loop with `flags` in the builder
Running(user, options, values, listening, rest, flags) ==
  [at |-> "allFlagsState", user |-> user, options |-> options, values |-> values,
   listening |-> listening, rest |-> rest, flags |-> flags]

\* The call as it enters its loop (line 494): Object.values of the flags read
\* from the store
Entering(user, options, values, listening, flags) ==
  {Running(user, options, values, listening, rest, EmptyObject) :
     rest \in ObjectValues(flags, DOMAIN flags)}

\* client.allFlagsState and client.allFlags (lines 474-514), from the call when
\* `entering`, and else from the return of the listener of error that the loop of
\* the call `c` last ran: the empty state offline or without a user; else the loop
\* up to its next report to a listener, which may write the store before the loop
\* goes on, or up to the return or the exception that ends the call.
\* c.listening says whether the emitter has a listener for error from here to
\* that point: the listeners change only while one of them runs
client_allFlagsState(c, entering) ==
  /\ result = NoResult
  /\ Len(emitted) < MaxEmitted
  /\ IF entering /\ (offline \/ ~truthy(c.user))
       THEN /\ result' = allFlags(c.values, FlagsState(FALSE, EmptyObject))
            /\ UNCHANGED <<emitted, inCallback>>
       ELSE \E run \in {addFlagsFrom(c.user, storeNow, c.options, c.listening,
                                     Added(c.flags, <<>>, c.rest))} :
              /\ emitted' = emitted \o reports(run.reported, c.listening)
              /\ IF thrown(run)
                   THEN /\ result' = Throw(run.throws)
                        /\ inCallback' = NotRunning
                   ELSE IF c.listening /\ run.reported # <<>>
                     THEN /\ inCallback' = [c EXCEPT !.rest = run.rest, !.flags = run.flags]
                          /\ UNCHANGED result
                     ELSE /\ result' = allFlags(c.values, FlagsState(TRUE, run.flags))
                          /\ inCallback' = NotRunning
  /\ op' = [name |-> IF c.values THEN "allFlags" ELSE "allFlagsState", user |-> c.user,
            options |-> c.options, listening |-> c.listening]
  /\ UNCHANGED <<heap, allData, initCalled, updateVars, initComplete, offline, failure>>

ClientOptions == [clientSideOnly : BOOLEAN, withReasons : BOOLEAN]

\* The calls of allFlagsState and allFlags that can take a step: a new call, or
\* the call whose listener of error has returned, which may have left the emitter
\* with or without a listener (a listener registered with once is gone)
ClientCalls ==
  IF inCallback = NotRunning
    THEN UNION {Entering(user, NoOptions, TRUE, listening, all(heap[allData], features)) :
                  user \in ClientUsers, listening \in BOOLEAN}
         \cup UNION {Entering(user, options, FALSE, listening, all(heap[allData], features)) :
                       user \in ClientUsers, listening \in BOOLEAN, options \in ClientOptions}
    ELSE {[inCallback EXCEPT !.listening = listening] : listening \in BOOLEAN}

\* The application calls the client and writes the store.  A listener of error
\* that allFlagsState runs may do the same; its calls of variation read what the
\* loop does not write, and are taken before or after the call of allFlagsState
ClientNext ==
  \/ result = NoResult /\ \E newData \in ClientSnapshots : store_init(newData)
  \/ result = NoResult /\ \E f \in ClientFoo : store_upsert(features, f)
  \/ start_callback(null, FALSE)
  \/ /\ inCallback = NotRunning
     /\ \E key \in ClientKeys : \E user \in ClientUsers : \E defaultVal \in ClientDefaults :
          \E listening \in BOOLEAN : client_variationDetail(key, user, defaultVal, listening)
  \/ /\ inCallback = NotRunning
     /\ \E key \in ClientKeys : \E user \in ClientUsers : \E defaultVal \in ClientDefaults :
          \E listening \in BOOLEAN : client_variation(key, user, defaultVal, listening)
  \/ /\ result = NoResult /\ Len(emitted) < MaxEmitted
     /\ \E c \in ClientCalls : client_allFlagsState(c, inCallback = NotRunning)
  \/ take_result

SpecClient == ClientInit /\ [][ClientNext]_vars

-----------------------------------------------------------------------------
(* The client's readiness: the update processor calls the callback of start any  *)
(* number of times, and the application asks for the initialisation              *)

ReadyNext ==
  \/ \E err \in StartErrors : \E listening \in BOOLEAN : start_callback(err, listening)
  \/ start_callback_emit_failed
  \/ start_callback_assign_failure
  \/ waitForInitialization
  \/ take_result

SpecReady == ClientInit /\ [][ReadyNext]_vars

-----------------------------------------------------------------------------
(* What the claims speak about *)

Max(a, b) == IF a >= b THEN a ELSE b

\* The entry retained for (kind, key), item or tombstone, if any
hasEntry(d, kind, key) == has(itemsOf(d, kind), key)

entry(d, kind, key) == itemsOf(d, kind)[key]

\* The version of the retained entry; below every version when there is none
NoVersion == 0

retainedVersion(d, kind, key) ==
  IF hasEntry(d, kind, key) THEN entry(d, kind, key).version ELSE NoVersion

\* Everything the read operations return
Reads(d) ==
  [kind \in dataKind |->
     [all |-> all(d, kind), get |-> [key \in AllKeys |-> get(d, kind, key)]]]

\* The entries of a snapshot's namespace that are not deleted
nonDeleted(newData, kind) ==
  LET items == IF has(newData, kind.namespace) THEN newData[kind.namespace] ELSE EmptyObject
  IN [key \in {k \in DOMAIN items : ~(has(items[k], "deleted") /\ items[k].deleted)} |-> items[key]]

-----------------------------------------------------------------------------
(* Claims about the store *)

\* C1: once the store is initialised, an upsert or a delete with version v leaves,
\* for its (kind, key), an entry whose version is the maximum of the version that
\* was retained and v: the retained version is the highest ever observed.
C1_RetainedVersionIsMax ==
  initCalled =>
    \A kind \in dataKind : \A key \in KeysOf(kind) : \A v \in Versions :
      /\ retainedVersion(upsert(data, kind, Item(key, v)), kind, key)
           = Max(retainedVersion(data, kind, key), v)
      /\ retainedVersion(delete(data, kind, key, v), kind, key)
           = Max(retainedVersion(data, kind, key), v)

\* C2: in every store state, a delete(kind, key, v) that wins its version check,
\* followed by an upsert of an item with that key and a version <= v, leaves the
\* tombstone: get(kind, key) is null.
C2_TombstoneSurvivesOlderUpsert ==
  \A kind \in dataKind : \A key \in KeysOf(kind) : \A v \in Versions : \A xv \in 1..v :
    retainedVersion(data, kind, key) < v =>
      get(upsert(delete(data, kind, key, v), kind, Item(key, xv)), kind, key) = null

\* C3: after init(newData), whatever the store held before, all(kind) is exactly
\* the non-deleted entries of newData's namespace and get is null for every key
\* that newData does not hold.
C3_InitReplacesContents ==
  op.name = "init" =>
    \A kind \in dataKind :
      /\ all(data, kind) = nonDeleted(op.newData, kind)
      /\ \A key \in AllKeys :
           ~hasEntry(op.newData, kind, key) => get(data, kind, key) = null

\* C3 witness: an init has just replaced the contents with a snapshot that holds a
\* live item and a deleted one
C3_Witness ==
  /\ op.name = "init"
  /\ initCalled
  /\ hasEntry(data, features, "foo") /\ ~isDeleted(entry(data, features, "foo"))
  /\ hasEntry(data, features, "bar") /\ isDeleted(entry(data, features, "bar"))
  /\ ~has(data, segments.namespace)

\* C4: a tombstoned entry reads as an absent one: get is null and all has no
\* entry for its key.
C4_TombstonesInvisible ==
  \A kind \in dataKind : \A key \in AllKeys :
    (hasEntry(data, kind, key) /\ isDeleted(entry(data, kind, key))) =>
      /\ get(data, kind, key) = null
      /\ ~has(all(data, kind), key)

\* C4 witness: a delete has just left a tombstone next to a live item
C4_Witness ==
  /\ op.name = "delete" /\ op.kind = features /\ op.key = "foo"
  /\ hasEntry(data, features, "foo")
  /\ entry(data, features, "foo") = [version |-> op.version, deleted |-> TRUE]
  /\ get(data, features, "bar") # null

\* C5: an upsert or a delete whose version is not strictly greater than the
\* version of the entry retained for its key leaves every get and all result as
\* it was.
C5_StaleWriteIsNoOp ==
  \A kind \in dataKind : \A key \in KeysOf(kind) : \A v \in Versions :
    (hasEntry(data, kind, key) /\ v <= entry(data, kind, key).version) =>
      LET before == Reads(data) IN
      /\ Reads(upsert(data, kind, Item(key, v))) = before
      /\ Reads(delete(data, kind, key, v)) = before

\* C5 witness: an upsert has just arrived with the version of the tombstone that
\* is retained for its key
C5_Witness ==
  /\ op.name = "upsert" /\ op.kind = features /\ op.key = "foo"
  /\ hasEntry(data, features, "foo")
  /\ isDeleted(entry(data, features, "foo"))
  /\ entry(data, features, "foo").version = op.version

\* C6: initialized() is false in a new store, is not changed by upsert or delete,
\* becomes true at an init and is true ever after.
C6_InitializedOnceInit ==
  /\ ~initialized
  /\ [][initialized' = (initialized \/ op'.name = "init")]_vars

\* C6 witness: an upsert and a delete have run on the store after its init
C6_Witness ==
  /\ initialized
  /\ op.name = "delete"
  /\ hasEntry(data, op.kind, op.key)
  /\ entry(data, op.kind, op.key) = [version |-> op.version, deleted |-> TRUE]
  /\ \E key \in AllKeys : get(data, features, key) # null /\ get(data, features, key).version > 1

\* C7: two upserts for one key with different versions commute: both orders leave
\* the same store, which retains the higher of the two if it exceeds the stored
\* version and the stored entry otherwise.
C7_UpsertsCommute ==
  \A kind \in dataKind : \A key \in KeysOf(kind) : \A va \in Versions : \A vb \in Versions :
    va # vb =>
      LET a == Item(key, va)
          b == Item(key, vb)
          ab == upsert(upsert(data, kind, a), kind, b)
          ba == upsert(upsert(data, kind, b), kind, a)
          hi == IF va > vb THEN a ELSE b
      IN /\ ab = ba
         /\ IF hasEntry(data, kind, key) /\ entry(data, kind, key).version >= hi.version
              THEN entry(ab, kind, key) = entry(data, kind, key)
              ELSE entry(ab, kind, key) = hi

\* C7 witness: the upsert with the lower version arrived last and lost
C7_Witness ==
  /\ op.name = "upsert" /\ op.kind = features /\ op.key = "foo"
  /\ get(data, features, "foo") # null
  /\ get(data, features, "foo").version > op.version

\* C8: init and upsert store a copy of what the caller passed: a later write of the
\* caller to its object changes no get or all result, and a later upsert or delete
\* of the store does not change the caller's object.
C8_WritesStoreCopies ==
  [][/\ op'.name = "caller_put" => Reads(data') = Reads(data)
     /\ (op'.name \in {"upsert", "delete"} /\ has(heap, newDataRef)) =>
          heap'[newDataRef] = heap[newDataRef]]_vars

\* An evaluate call that reached evalInternal has just returned (or thrown)
evaluated == op.name = "evaluate" /\ ~isNullish(op.flag) /\ ~isNullish(op.user)
               /\ ~isNullish(field(op.user, "key"))

indexInRange(flag, index) ==
  has(index, "num") /\ 0 <= index.num /\ index.num < Len(flag.variations)

\* The result getOffResult is specified to give for a flag and a reason
offResult(flag, reason) ==
  LET off == field(flag, "offVariation") IN
  IF isNullish(off)
    THEN [err |-> null, detail |-> [value |-> null, variationIndex |-> null, reason |-> reason],
          events |-> <<>>]
    ELSE [err |-> null,
          detail |-> [value |-> IF indexInRange(flag, off) THEN flag.variations[off.num + 1]
                                ELSE undefined,
                      variationIndex |-> off, reason |-> reason],
          events |-> <<>>]

malformedFlag ==
  [err |-> Error("Invalid variation index in flag"), detail |-> errorResult("MALFORMED_FLAG"),
   events |-> <<>>]

\* C9 as stated: every evaluation of a flag with on = false by a user with a key
\* returns the flag's off variation with reason OFF and no events, whatever the
\* prerequisites, targets, rules, fallthrough and the store contents are.  It
\* fails for an offVariation outside 0..variations.length-1, where evaluate
\* returns the MALFORMED_FLAG error.
C9_OffFlagReturnsOffVariation ==
  (evaluated /\ ~op.flag.on) => result = offResult(op.flag, [kind |-> "OFF"])

\* C9, amended: every evaluation of a flag with on = false by a user with a key
\* returns no events and depends on neither prerequisites, targets, rules,
\* fallthrough nor the store; it returns the off variation with reason OFF when
\* offVariation is null, absent or an index of variations, and the error
\* 'Invalid variation index in flag' with MALFORMED_FLAG otherwise.
C9_OffFlagReturnsOffVariationOrMalformed ==
  (evaluated /\ ~op.flag.on) =>
    LET off == field(op.flag, "offVariation") IN
    IF isNullish(off) \/ indexInRange(op.flag, off)
      THEN result = offResult(op.flag, [kind |-> "OFF"])
      ELSE result = malformedFlag

\* An off flag with prerequisites held by the store was evaluated and gave its off variation
C9_Witness ==
  /\ evaluated /\ ~op.flag.on
  /\ Len(op.flag.prerequisites) > 0
  /\ get(data, features, op.flag.prerequisites[1].key) # null
  /\ Len(op.flag.targets) > 0 /\ Len(op.flag.rules) > 0
  /\ result.detail.reason = [kind |-> "OFF"]
  /\ result.detail.value = str("b")

\* The index evalInternal hands to getVariation for the evaluated flag: the off
\* variation when the flag is off or a prerequisite failed, else the variation of
\* the first target holding the user's key, else the variation or rollout of the
\* first matching rule, else that of the fallthrough
selectedIndex(flag, user, d) ==
  LET u == stringifyAttrs(user, userAttrsToStringifyForEvaluation)
      c == checkPrerequisites(flag, u, d, <<>>, 1)
      targetHits == {i \in 1..Len(flag.targets) :
                       \E j \in 1..Len(flag.targets[i].values) :
                          u.key = flag.targets[i].values[j]}
      ruleHits == {i \in 1..Len(flag.rules) : ruleMatchUser(flag.rules[i], u, d)}
  IN IF ~flag.on THEN field(flag, "offVariation")
     ELSE IF thrown(c) THEN undefined
     ELSE IF truthy(c.err) \/ truthy(c.reason) THEN field(flag, "offVariation")
     ELSE IF targetHits # {}
       THEN field(flag.targets[CHOOSE i \in targetHits : \A j \in targetHits : i <= j],
                  "variation")
     ELSE IF ruleHits # {}
       THEN variationForUser(flag.rules[CHOOSE i \in ruleHits : \A j \in ruleHits : i <= j],
                             u, flag)
     ELSE variationForUser(flag.fallthrough, u, flag)

\* C10: an evaluation that returns err = null and a non-null variationIndex i has
\* 0 <= i < flag.variations.length and value = flag.variations[i]; an evaluation
\* in which the index selected by the off variation, a target, a rule or the
\* fallthrough is a number outside that range returns the error 'Invalid
\* variation index in flag' with detail {null, null, ERROR/MALFORMED_FLAG}.
C10_VariationIndexInRange ==
  (op.name = "evaluate" /\ ~thrown(result)) =>
    /\ (result.err = null /\ result.detail.variationIndex # null) =>
          /\ indexInRange(op.flag, result.detail.variationIndex)
          /\ result.detail.value = op.flag.variations[result.detail.variationIndex.num + 1]
    /\ evaluated =>
          LET index == selectedIndex(op.flag, op.user, data) IN
          (has(index, "num") /\ ~indexInRange(op.flag, index)) =>
             /\ result.err = Error("Invalid variation index in flag")
             /\ result.detail = errorResult("MALFORMED_FLAG")

\* A matching rule with the negative variation -1 was evaluated and gave the error
C10_Witness ==
  /\ evaluated /\ op.flag.on /\ ~thrown(result)
  /\ Len(op.flag.targets) = 0 /\ Len(op.flag.prerequisites) = 0
  /\ Len(op.flag.rules) > 0 /\ op.flag.rules[1].variation = num(0 - 1)
  /\ op.user.key = str("userKeyB")
  /\ result.err = Error("Invalid variation index in flag")
  /\ result.detail = errorResult("MALFORMED_FLAG")

\* A prerequisite is satisfied: its flag is in the store, is on, and its own
\* evaluation returns the required variation index
satisfied(prereq, user, d) ==
  LET prereqFlag == get(d, features, prereq.key) IN
  /\ prereqFlag # null
  /\ prereqFlag.on
  /\ LET r == evaluate(prereqFlag, user, d) IN
     ~thrown(r) /\ r.detail.variationIndex = prereq.variation

\* Positions of the prerequisites of the flag that are not satisfied
unsatisfied(flag, user, d) ==
  {i \in 1..Len(flag.prerequisites) : ~satisfied(flag.prerequisites[i], user, d)}

\* The detail of the off result with the given reason; an offVariation outside
\* the variations gives the MALFORMED_FLAG detail (C10)
offDetail(flag, reason) ==
  LET off == field(flag, "offVariation") IN
  IF isNullish(off) \/ indexInRange(flag, off)
    THEN offResult(flag, reason).detail
    ELSE errorResult("MALFORMED_FLAG")

\* C11 as stated: an evaluation of an on flag that has an unsatisfied prerequisite
\* returns the flag's off variation with reason PREREQUISITE_FAILED and the key of
\* the first unsatisfied prerequisite in list order, where satisfied means present
\* in the store, on, and evaluating to the required variation index; targets,
\* rules and fallthrough decide the result only when every prerequisite is
\* satisfied.  It fails for an offVariation outside 0..variations.length-1, where
\* evaluate returns the MALFORMED_FLAG error instead of an off variation.
C11_FirstUnsatisfiedPrerequisiteFails ==
  (evaluated /\ op.flag.on /\ ~thrown(result)) =>
    LET failing == unsatisfied(op.flag, op.user, data) IN
    IF failing # {}
      THEN LET i == CHOOSE i \in failing : \A j \in failing : i <= j IN
           result.detail =
             offResult(op.flag, [kind |-> "PREREQUISITE_FAILED",
                                 prerequisiteKey |-> op.flag.prerequisites[i].key]).detail
      ELSE LET r == evalRules(op.flag, stringifyAttrs(op.user, userAttrsToStringifyForEvaluation),
                              data) IN
           result.err = r.err /\ result.detail = r.detail

\* C11, amended: an evaluation of an on flag that has an unsatisfied prerequisite
\* returns, when offVariation is null, absent or an index of variations, the
\* flag's off variation with reason PREREQUISITE_FAILED and the key of the first
\* unsatisfied prerequisite in list order, and otherwise the error 'Invalid
\* variation index in flag' with the detail ERROR / MALFORMED_FLAG; satisfied means
\* present in the store, on, and evaluating to the required variation index;
\* targets, rules and fallthrough decide the result only when every prerequisite
\* is satisfied.
C11_FirstUnsatisfiedPrerequisiteFailsOrMalformed ==
  (evaluated /\ op.flag.on /\ ~thrown(result)) =>
    LET failing == unsatisfied(op.flag, op.user, data) IN
    IF failing # {}
      THEN LET i == CHOOSE i \in failing : \A j \in failing : i <= j
               off == field(op.flag, "offVariation")
           IN IF isNullish(off) \/ indexInRange(op.flag, off)
                THEN /\ result.detail =
                          offResult(op.flag,
                                    [kind |-> "PREREQUISITE_FAILED",
                                     prerequisiteKey |-> op.flag.prerequisites[i].key]).detail
                ELSE /\ result.err = malformedFlag.err
                     /\ result.detail = malformedFlag.detail
      ELSE LET r == evalRules(op.flag, stringifyAttrs(op.user, userAttrsToStringifyForEvaluation),
                              data) IN
           result.err = r.err /\ result.detail = r.detail

\* The first prerequisite was satisfied and the second was not: the flag gave its
\* off variation with the second prerequisite's key
C11_Witness ==
  /\ evaluated /\ op.flag.on /\ ~thrown(result)
  /\ Len(op.flag.prerequisites) = 2
  /\ satisfied(op.flag.prerequisites[1], op.user, data)
  /\ get(data, features, "foo").on
  /\ result.detail = [value |-> str("b"), variationIndex |-> num(1),
                      reason |-> [kind |-> "PREREQUISITE_FAILED", prerequisiteKey |-> "bar"]]

RECURSIVE expectedEvents(_, _, _, _)
RECURSIVE expectedEventsFrom(_, _, _, _, _)

\* The events an evaluation of the flag is to record, as <<key, prereqOf>> pairs:
\* for each prerequisite in order up to the first unsatisfied one, and only if it
\* is in the store, the events of its own evaluation and then its own event
expectedEvents(flag, user, d, fuel) ==
  IF fuel = 0 \/ ~flag.on THEN <<>> ELSE expectedEventsFrom(1, flag, user, d, fuel)

expectedEventsFrom(i, flag, user, d, fuel) ==
  IF i > Len(flag.prerequisites) THEN <<>>
  ELSE
    LET prereq == flag.prerequisites[i]
        prereqFlag == get(d, features, prereq.key)
    IN IF prereqFlag = null THEN <<>>
       ELSE expectedEvents(prereqFlag, user, d, fuel - 1)
              \o <<[key |-> prereqFlag.key, prereqOf |-> flag.key]>>
              \o (IF satisfied(prereq, user, d)
                    THEN expectedEventsFrom(i + 1, flag, user, d, fuel)
                    ELSE <<>>)

eventNames(events) ==
  [i \in 1..Len(events) |-> [key |-> events[i].key, prereqOf |-> events[i].prereqOf]]

\* C12: the events returned by an evaluation are, in order, one event per
\* prerequisite flag that was found in the store and evaluated, each after the
\* events of its own prerequisites and each naming the containing flag as
\* prereqOf; a prerequisite missing from the store and the prerequisites after the
\* first unsatisfied one leave no event.
C12_OneEventPerEvaluatedPrerequisite ==
  (evaluated /\ ~thrown(result)) =>
    eventNames(result.events) = expectedEvents(op.flag, op.user, data, MaxDepth)

\* Both prerequisites were evaluated, the first after its own prerequisite
C12_Witness ==
  /\ evaluated /\ ~thrown(result)
  /\ eventNames(result.events) =
       <<[key |-> "bar", prereqOf |-> "foo"], [key |-> "foo", prereqOf |-> "hashKey"],
         [key |-> "bar", prereqOf |-> "hashKey"]>>

\* C13: when the evaluation of the first unsatisfied prerequisite flag produces an
\* error, the evaluation of the containing flag returns that error as its err,
\* together with the containing flag's off result with reason PREREQUISITE_FAILED
\* for that prerequisite.
C13_PrerequisiteErrorPropagates ==
  (evaluated /\ op.flag.on /\ ~thrown(result)) =>
    LET failing == unsatisfied(op.flag, op.user, data) IN
    failing # {} =>
      LET i == CHOOSE i \in failing : \A j \in failing : i <= j
          prereq == op.flag.prerequisites[i]
          prereqFlag == get(data, features, prereq.key)
      IN prereqFlag # null =>
           LET r == evaluate(prereqFlag, op.user, data) IN
           (~thrown(r) /\ r.err # null) =>
              /\ result.err = r.err
              /\ result.detail =
                   offDetail(op.flag, [kind |-> "PREREQUISITE_FAILED",
                                       prerequisiteKey |-> prereq.key])

\* The user object evalInternal works on
sanitizedUser(user) == stringifyAttrs(user, userAttrsToStringifyForEvaluation)

\* Positions of the targets whose values hold the user's key
targetsWith(flag, user) ==
  {i \in 1..Len(flag.targets) :
     /\ has(flag.targets[i], "values")
     /\ \E j \in 1..Len(flag.targets[i].values) :
          flag.targets[i].values[j] = sanitizedUser(user).key}

\* The result of selecting the variation index with the reason (C10 for the range)
selected(flag, index, reason) ==
  IF indexInRange(flag, index)
    THEN [err |-> null,
          detail |-> [value |-> flag.variations[index.num + 1], variationIndex |-> index,
                      reason |-> reason]]
    ELSE [err |-> Error("Invalid variation index in flag"),
          detail |-> errorResult("MALFORMED_FLAG")]

\* C14: an evaluation of an on flag whose prerequisites are all satisfied, for a
\* user whose key is listed by some target, returns the variation of the first
\* such target with reason TARGET_MATCH, whether or not a rule matches the user;
\* a rule decides only when no target lists the user's key.
C14_FirstTargetWins ==
  (evaluated /\ ~thrown(result) /\ op.flag.on /\ unsatisfied(op.flag, op.user, data) = {}) =>
    LET hits == targetsWith(op.flag, op.user) IN
    /\ hits # {} =>
         LET i == CHOOSE i \in hits : \A j \in hits : i <= j
             r == selected(op.flag, field(op.flag.targets[i], "variation"),
                           [kind |-> "TARGET_MATCH"])
         IN result.err = r.err /\ result.detail = r.detail
    /\ result.detail.reason.kind = "RULE_MATCH" => hits = {}

\* Two targets list the user and a rule matches the user too: the first target won
C14_Witness ==
  /\ evaluated /\ ~thrown(result) /\ op.flag.on
  /\ Len(op.flag.prerequisites) = 1 /\ unsatisfied(op.flag, op.user, data) = {}
  /\ targetsWith(op.flag, op.user) = {1, 2}
  /\ \E i \in 1..Len(op.flag.rules) : ruleMatchUser(op.flag.rules[i], op.user, data)
  /\ result.detail = [value |-> str("b"), variationIndex |-> num(1),
                      reason |-> [kind |-> "TARGET_MATCH"]]

\* Positions of the rules that match the user
rulesMatching(flag, user, d) ==
  {i \in 1..Len(flag.rules) : ruleMatchUser(flag.rules[i], sanitizedUser(user), d)}

\* C15: when no target lists the user and some rule matches, the evaluation
\* returns reason RULE_MATCH with the zero-based position and the id of the first
\* matching rule, for every rule list, also when rules share an id or have none;
\* when no rule matches, the reason of a result without error is FALLTHROUGH.
C15_RuleIndexIsPositionOfFirstMatch ==
  (evaluated /\ ~thrown(result) /\ op.flag.on /\ unsatisfied(op.flag, op.user, data) = {}
     /\ targetsWith(op.flag, op.user) = {}) =>
    LET hits == rulesMatching(op.flag, op.user, data) IN
    IF hits # {}
      THEN LET i == CHOOSE i \in hits : \A j \in hits : i <= j IN
           result.err = null =>
             result.detail.reason = [kind |-> "RULE_MATCH", ruleIndex |-> i - 1,
                                     ruleId |-> field(op.flag.rules[i], "id")]
      ELSE result.err = null => result.detail.reason = [kind |-> "FALLTHROUGH"]

\* floor(b * 100000) for the bucket value b = hashVal / 2^60 of the five limbs
\* hashVal: floor(hashVal * 3125 / 2^55)
quotient(hashVal) ==
  LET p1 == hashVal[1] * 3125
      p2 == hashVal[2] * 3125 + (p1 \div Base)
      p3 == hashVal[3] * 3125 + (p2 \div Base)
      p4 == hashVal[4] * 3125 + (p3 \div Base)
      p5 == hashVal[5] * 3125 + (p4 \div Base)
  IN ((p4 % Base) \div 2^10) + (p5 % Base) * 2^5 + (p5 \div Base) * 2^20

\* A bucket value in hundred-thousandths rounded down
hundredThousandths(b) == quotient(SubSeq(b, 2, 6))

RECURSIVE cumulativeWeight(_, _)
\* The cumulative weight/100000 of the first i entries of a rollout, a Number
cumulativeWeight(variations, i) ==
  IF i = 0 THEN Zero
  ELSE plus(cumulativeWeight(variations, i - 1), weightQuotient(variations[i].weight))

\* The variation-or-rollout object that decides the evaluation when no target
\* lists the user: the first matching rule, else the fallthrough
decidingRollout(flag, user, d) ==
  LET hits == rulesMatching(flag, user, d) IN
  IF hits # {} THEN flag.rules[CHOOSE i \in hits : \A j \in hits : i <= j]
  ELSE flag.fallthrough

\* C16: a rollout with a non-empty variations list selects, for the bucket value
\* b of the user, the variation of the first entry whose cumulative weight is
\* strictly greater than b, and the variation of the last entry, without error,
\* when b is greater than or equal to the total weight.  The bucket value, each
\* weight/100000 and their sums are Numbers, the sums rounded as they accumulate.
C16_RolloutSelectsFirstBucketAboveValue ==
  (evaluated /\ ~thrown(result) /\ op.flag.on /\ unsatisfied(op.flag, op.user, data) = {}
     /\ targetsWith(op.flag, op.user) = {}) =>
    LET r == decidingRollout(op.flag, op.user, data) IN
    (isNullish(field(r, "variation")) /\ has(r, "rollout")
       /\ Len(r.rollout.variations) > 0) =>
      LET variations == r.rollout.variations
          b == bucketUser(sanitizedUser(op.user), op.flag.key, bucketByOf(r.rollout),
                          op.flag.salt)
          above == {i \in 1..Len(variations) : less(b, cumulativeWeight(variations, i))}
          chosen == IF above # {} THEN CHOOSE i \in above : \A j \in above : i <= j
                    ELSE Len(variations)
      IN /\ result.err = null
         /\ result.detail.variationIndex = variations[chosen].variation

\* The bucket value of the user is the end of the first bucket range: the second
\* entry was selected
C16_Witness ==
  /\ evaluated /\ ~thrown(result) /\ op.flag.on
  /\ op.user = [key |-> str("userKeyA")]
  /\ hundredThousandths(bucketUser(op.user, op.flag.key, "key", op.flag.salt)) = 42157
  /\ has(op.flag.fallthrough, "rollout")
  /\ Len(op.flag.fallthrough.rollout.variations) = 3
  /\ op.flag.fallthrough.rollout.variations[1].weight = 42157
  /\ result.err = null
  /\ result.detail.reason = [kind |-> "FALLTHROUGH"]
  /\ result.detail.variationIndex = num(1)

\* C17: an evaluation returns err = null, no events and the detail
\* ERROR/USER_NOT_SPECIFIED whenever the user is missing or its key is null,
\* undefined or the empty string, and otherwise the detail ERROR/FLAG_NOT_FOUND
\* whenever the flag is missing, whatever the store holds.
C17_MissingUserOrFlag ==
  op.name = "evaluate" =>
    IF isNullish(op.user) \/ isNullish(field(op.user, "key")) \/ op.user.key = str("")
      THEN result = [err |-> null, detail |-> errorResult("USER_NOT_SPECIFIED"), events |-> <<>>]
      ELSE isNullish(op.flag) =>
             result = [err |-> null, detail |-> errorResult("FLAG_NOT_FOUND"), events |-> <<>>]

\* The list property of a segment, empty when absent
listOf(segment, p) == IF has(segment, p) THEN segment[p] ELSE <<>>

inList(list, v) == \E i \in 1..Len(list) : list[i] = v

\* A segment rule matches: all its clauses match and it has no weight or the
\* user's bucket is below weight/100000
segmentRuleMatches(rule, user, segment) ==
  /\ \A i \in 1..Len(listOf(rule, "clauses")) : clauseMatchUserNoSegments(rule.clauses[i], user)
  /\ \/ ~has(rule, "weight")
     \/ less(bucketUser(user, segment.key,
                        IF has(rule, "bucketBy") THEN rule.bucketBy ELSE "key", segment.salt),
             weightQuotient(rule.weight))

\* C18: segmentMatchUser is true when the user's key is in segment.included, also
\* when it is in segment.excluded too; otherwise false when the key is in
\* segment.excluded; otherwise true iff some segment rule matches; otherwise false.
C18_SegmentMatch ==
  op.name = "segmentMatchUser" =>
    result.matched =
      IF inList(listOf(op.segment, "included"), op.user.key) THEN TRUE
      ELSE IF inList(listOf(op.segment, "excluded"), op.user.key) THEN FALSE
      ELSE \E i \in 1..Len(listOf(op.segment, "rules")) :
             segmentRuleMatches(op.segment.rules[i], op.user, op.segment)

\* A bucket value has been returned
bucketed == op.name \in {"bucketUser", "hashBucket"}

\* C20 as stated: every bucket value b returned by bucketUser has 0 <= b < 1, for
\* every user, attribute and every 15-digit hash prefix n up to 2^60 - 1.  It
\* fails for the largest prefixes, n = 2^60 - 1 among them, where b = 1.
C20_BucketBelowOne ==
  bucketed => (~less(result.bucket, Zero) /\ less(result.bucket, One))

\* C20, amended: every bucket value b returned by bucketUser has 0 <= b <= 1, and
\* b = 1 exactly for the hash prefixes n >= 2^60 - 64, which parseInt rounds to
\* 2^60, the Number that the divisor 0xfffffffffffffff denotes.
C20_BucketAtMostOne ==
  bucketed =>
    /\ ~less(result.bucket, Zero) /\ ~less(One, result.bucket)
    /\ op.name = "hashBucket" =>
         (result.bucket = One <=>
            (/\ op.prefix[4] = Base - 1 /\ op.prefix[3] = Base - 1 /\ op.prefix[2] = Base - 1
             /\ op.prefix[1] >= Base - 64))

\* The prefix 2^60 - 64 was bucketed: the tie was rounded up to 2^60 and b = 1
C20_Witness ==
  /\ op.name = "hashBucket"
  /\ op.prefix = <<Base - 64, Base - 1, Base - 1, Base - 1>>
  /\ result.bucket = One

\* The user with the value of the attribute replaced, where userValue finds it
withAttr(user, attr, v) ==
  IF attr \in builtins /\ has(user, attr) THEN put(user, attr, v)
  ELSE put(user, "custom", put(user.custom, attr, v))

\* C21: bucketUser returns 0 when the bucketing attribute is absent from the user
\* or its value is neither a string nor an integer, and for an integer value N it
\* returns the bucket of the same user (same key, scope key, salt and secondary)
\* with the attribute holding the string of N's decimal digits.
C21_BucketOfAbsentOrIntegerAttribute ==
  op.name = "bucketUser" =>
    LET v == userValue(op.user, op.attr) IN
    /\ (isNullish(v) \/ ~(has(v, "str") \/ has(v, "num"))) => result.bucket = Zero
    /\ has(v, "num") =>
         /\ result.bucket =
              bucketUser(withAttr(op.user, op.attr,
                                  str(IF v.num < 0 THEN "-" \o decimal(0 - v.num)
                                      ELSE decimal(v.num))),
                         "hashKey", op.attr, "saltyA")
         /\ result.bucket # Zero

\* The integer attribute 33333 of a user with a secondary key was bucketed
C21_Witness ==
  /\ op.name = "bucketUser" /\ op.attr = "intAttr"
  /\ has(op.user, "secondary") /\ userValue(op.user, "intAttr") = num(33333)
  /\ result.bucket = bucketUser([key |-> str("x"), secondary |-> str("999"),
                                  custom |-> [a |-> str("33333")]], "hashKey", "a", "saltyA")

-----------------------------------------------------------------------------
(* Claims about the stream processor *)

storeUnchanged == heap' = heap /\ allData' = allData /\ initCalled' = initCalled

MalformedJsonError == LDStreamingError("Malformed JSON data in event stream", undefined)

\* C22: after start(cb) the processor calls cb once in total, at the first put
\* that is applied or at the first error that is not recoverable; no later put
\* and no later error calls cb again.
C22_CbInvokedOnce == Len(cbCalls) <= 1

\* The status of an error is one the classification calls non-recoverable
nonRecoverable(err) ==
  has(err, "status") /\ err.status >= 400 /\ err.status < 500 /\ err.status \notin {408, 429}

\* C23: at an error of the EventSource with a non-recoverable status (a 4xx other
\* than 408 and 429) the error filter returns false, the connection is shut down
\* and cb receives a streaming error; at every other error the filter returns
\* true, cb is not called and the store is unchanged.
C23_ErrorFilterClassifies ==
  [][op'.name = "error" =>
       IF nonRecoverable(op'.err)
         THEN /\ op'.return = FALSE
              /\ es' = "shutdown"
              /\ cbCalls' = Append(cbCalls, LDStreamingError(op'.err.message, num(op'.err.status)))
         ELSE /\ op'.return = TRUE
              /\ es' = "open"
              /\ cbCalls' = cbCalls
              /\ storeUnchanged]_vars

C23_Witness ==
  /\ op.name = "error"
  /\ op.err = [message |-> "stream error", status |-> 404]
  /\ es = "shutdown"
  /\ cbCalls # <<>>
  /\ cbCalls[Len(cbCalls)] = LDStreamingError("stream error", num(404))

\* C24: after a put event with well-formed JSON the store is initialised and its
\* features and segments are the event's data.flags and data.segments, whatever
\* the store held before, and cb is called with no error when init has completed.
C24_PutReplacesStoreBeforeCb ==
  (op.name = "put" /\ has(op.e.data, "json")) =>
    /\ initCalled
    /\ heap[allData][features.namespace] = op.e.data.json.data.flags
    /\ heap[allData][segments.namespace] = op.e.data.json.data.segments
    /\ DOMAIN heap[allData] = {features.namespace, segments.namespace}
    /\ op.cb = <<cbCall(undefined, storeNow)>>

\* a put of an empty snapshot after an earlier event had written to the store
C24_Witness ==
  /\ op.name = "put"
  /\ has(op.e.data, "json")
  /\ op.e.data.json.data.flags = EmptyObject
  /\ Len(applied) >= 2
  /\ all(heap[allData], features) = EmptyObject

\* C25: a put, patch or delete event whose data is not JSON leaves the store and
\* its initialised flag unchanged, is reported to cb as a streaming error, and
\* leaves the connection and the requests in flight as they were, so that the
\* later events of the stream are handled as without it.
C25_MalformedEventIsDropped ==
  [][(op'.name \in {"put", "patch", "delete"} /\ op'.e.data = Malformed) =>
       /\ storeUnchanged
       /\ cbCalls' = Append(cbCalls, MalformedJsonError)
       /\ es' = es
       /\ es' = "open"
       /\ inflight' = inflight
       /\ applied' = applied]_vars

\* a well-formed patch is applied on the connection that reported a malformed event
C25_Witness ==
  /\ \E i \in 1..Len(cbCalls) : cbCalls[i] = MalformedJsonError
  /\ op.name = "patch"
  /\ op.wrote
  /\ es = "open"
  /\ get(heap[allData], features, "foo") = Item("foo", 2)

\* C26: once stop or close has returned the processor calls neither cb nor init,
\* upsert or delete, also when the response of a request that was in flight
\* arrives afterwards.
C26_NothingAfterStop ==
  (op.name \in {"requestAllData", "requestObject"} /\ op.es = "closed") =>
    (op.cb = <<>> /\ ~op.wrote)

\* C27: the store writes of the events of one stream are applied in the order in
\* which the events were received.
C27_WritesInReceiveOrder ==
  \A i, j \in 1..Len(applied) : i < j => applied[i] < applied[j]

-----------------------------------------------------------------------------
(* Claims about the client *)

clientCall == op.name \in {"variation", "variationDetail"}

\* The call reached evaluate, and evaluate raised an exception
evaluationRaised ==
  /\ clientCall
  /\ initComplete \/ initCalled
  /\ ~offline
  /\ truthy(op.key)
  /\ truthy(get(heap[allData], features, op.key.str))
  /\ truthy(op.user)
  /\ thrown(evaluate(get(heap[allData], features, op.key.str), op.user, heap[allData]))

\* C28: variation and variationDetail never throw and always return a result;
\* when the evaluation raises an exception, variationDetail returns the detail
\* ERROR/EXCEPTION with the caller's default and variation returns the default.
C28_NeverThrows ==
  clientCall =>
    /\ has(result, "returned")
    /\ result.returned # undefined
    /\ evaluationRaised =>
         IF op.name = "variationDetail"
           THEN result.returned = client_errorResult("EXCEPTION", op.defaultVal)
           ELSE result.returned = op.defaultVal

\* C29: while the client has not completed initialisation, a call returns the
\* caller's default with ERROR/CLIENT_NOT_READY when the store is not initialised,
\* whatever the store holds, and when the store is initialised it returns what
\* the same call returns once initialisation has completed.
C29_NotReady ==
  (clientCall /\ ~initComplete) =>
    IF ~initCalled
      THEN result = returned(IF op.name = "variationDetail"
                               THEN client_errorResult("CLIENT_NOT_READY", op.defaultVal)
                               ELSE op.defaultVal)
      ELSE result = (IF op.name = "variationDetail"
                       THEN variationDetail(op.key, op.user, op.defaultVal, storeNow, TRUE, offline).out
                       ELSE variation(op.key, op.user, op.defaultVal, storeNow, TRUE, offline).out)

\* before ready, the initialised store's flag foo was evaluated to its fallthrough
C29_Witness ==
  /\ op.name = "variationDetail"
  /\ ~initComplete
  /\ initCalled
  /\ result = returned([value |-> str("d"), variationIndex |-> num(0),
                        reason |-> [kind |-> "FALLTHROUGH"]])

\* C30: a detail that variationDetail returns with variationIndex = null carries
\* the caller's default as its value, and variation returns that default for the
\* same call.
C30_NullIndexGivesDefault ==
  (op.name = "variationDetail" /\ has(result, "returned") /\ result.returned # undefined
     /\ result.returned.variationIndex = null) =>
    /\ result.returned.value = op.defaultVal
    /\ variation(op.key, op.user, op.defaultVal, storeNow, initComplete, offline).out
         = returned(op.defaultVal)

\* an off flag without offVariation gave the default
C30_Witness ==
  /\ op.name = "variationDetail"
  /\ has(result, "returned")
  /\ result.returned = [value |-> str("dflt"), variationIndex |-> null, reason |-> [kind |-> "OFF"]]

-----------------------------------------------------------------------------
(* Claims about rules, clauses and attributes *)

negated(c) == has(c, "negate") /\ c.negate = TRUE

\* C32: a rule matches a user iff its clauses list is non-empty and every clause
\* matches; a rule whose clauses are missing or empty does not match.
C32_RuleNeedsClauses ==
  op.name = "ruleMatchUser" =>
    result.matched =
      (/\ has(op.r, "clauses")
       /\ op.r.clauses # <<>>
       /\ \A i \in 1..Len(op.r.clauses) : clauseMatchUser(op.r.clauses[i], op.user, data))

\* The attribute a clause names, looked up as userValue does
clauseAttribute == userValue(op.user, op.c.attribute)

\* Some value of the user's attribute is one of the clause's values
someValueMatches(v, c) ==
  LET uValues == IF has(v, "arr") THEN v.arr ELSE <<v>> IN
  \E i \in 1..Len(uValues) : \E j \in 1..Len(c.values) : operatorFn(c.op, uValues[i], c.values[j])

\* C33: a clause that is no segment clause and whose attribute the user lacks is
\* false before negation and negate is applied to it; with a present attribute
\* the clause is (some user value matches some clause value), negated last.
C33_NegateAppliedToAbsentAttribute ==
  (op.name = "clauseMatchUser" /\ op.c.op # "segmentMatch") =>
    LET pre == IF isNullish(clauseAttribute) THEN FALSE
               ELSE someValueMatches(clauseAttribute, op.c)
    IN result.matched = (IF negated(op.c) THEN ~pre ELSE pre)

\* The segments of the store that are no tombstones
presentSegments ==
  IF has(data, segments.namespace)
    THEN {k \in DOMAIN data[segments.namespace] : ~isDeleted(data[segments.namespace][k])}
    ELSE {}

\* C34: a segmentMatch clause is, before negation, true iff one of its values is
\* the key of a segment that the store holds and that matches the user; values
\* that name no segment are skipped, and negate is applied to the result.
C34_SegmentClause ==
  (op.name = "clauseMatchUser" /\ op.c.op = "segmentMatch") =>
    LET pre == \E i \in 1..Len(op.c.values) :
                 /\ op.c.values[i].str \in presentSegments
                 /\ segmentMatchUser(data[segments.namespace][op.c.values[i].str], op.user)
    IN result.matched = (IF negated(op.c) THEN ~pre ELSE pre)

\* the second value names the segment that includes the user; the first names none
C34_Witness ==
  /\ op.name = "clauseMatchUser"
  /\ op.c = SegmentClause(<<str("missing"), str("segkey")>>)
  /\ op.user.key = str("userKeyA")
  /\ result.matched = TRUE

specifiedBuiltins == builtins \cup {"secondary"}

\* C35: a built-in attribute name (secondary among them) is read from the
\* top-level user record only, null when the record lacks it whatever user.custom
\* holds, and every other name is read from user.custom only.
C35_AttributeLookup ==
  op.name = "userValue" =>
    result.value =
      (IF op.attr \in specifiedBuiltins
         THEN IF has(op.user, op.attr) THEN op.user[op.attr] ELSE null
         ELSE IF has(op.user, "custom") /\ has(op.user.custom, op.attr)
                THEN op.user.custom[op.attr] ELSE null)

\* C36: evaluate returns a result (err, detail, events) for every flag, user and
\* store contents, also when the prerequisites in the store form a cycle.
C36_EvaluateReturns ==
  op.name = "evaluate" =>
    /\ ~thrown(result)
    /\ DOMAIN result = {"err", "detail", "events"}

-----------------------------------------------------------------------------
(* Claims about the routing of stream events *)

\* The kind and key a path names, null when it names none
namedBy(path) ==
  IF path = "/flags/foo" THEN [kind |-> features, key |-> "foo"]
  ELSE IF path = "/segments/foo" THEN [kind |-> segments, key |-> "foo"]
  ELSE null

\* The path of a patch, delete or indirect/patch event that carries one
pathOf(o) ==
  IF o.name = "indirect/patch" THEN o.e.data.str ELSE o.e.data.json.path

carriesPath(o) ==
  \/ o.name \in {"patch", "delete"} /\ has(o.e.data, "json")
  \/ o.name = "indirect/patch" /\ o.e.data # str("")

\* C37: a patch, delete or indirect/patch event whose path starts with no kind's
\* streamApiPath changes nothing in the store, sends no request and calls cb not
\* at all; when the path names a kind, the patch does one upsert and the delete
\* one delete on that kind, and the indirect/patch sends one request for it.
C37_UnroutedEventIsNoOp ==
  [][carriesPath(op') =>
       LET to == namedBy(pathOf(op')) IN
       IF to = null
         THEN storeUnchanged /\ inflight' = inflight /\ cbCalls' = cbCalls /\ applied' = applied
       ELSE IF op'.name = "patch"
         THEN /\ allData' = allData /\ initCalled' = initCalled /\ inflight' = inflight
              /\ heap' = [heap EXCEPT ![allData] = upsert(heap[allData], to.kind, op'.e.data.json.data)]
              /\ applied' = Append(applied, received')
       ELSE IF op'.name = "delete"
         THEN /\ allData' = allData /\ initCalled' = initCalled /\ inflight' = inflight
              /\ heap' = [heap EXCEPT ![allData] =
                            delete(heap[allData], to.kind, to.key, op'.e.data.json.version)]
              /\ applied' = Append(applied, received')
       ELSE /\ storeUnchanged
            /\ inflight' = inflight \cup {ObjectRequest(received', to.kind, to.key)}
            /\ applied' = applied]_vars

\* after a patch had been applied, a patch for a path of no kind was dropped
C37_Witness ==
  /\ op.name = "patch"
  /\ has(op.e.data, "json")
  /\ op.e.data.json.path = "/other/foo"
  /\ ~op.wrote
  /\ applied # <<>>
  /\ cbCalls = <<>>

\* The entry the store's object holds for (kind, key), tombstones included
entryOf(d, kind, key) ==
  IF has(d, kind.namespace) /\ has(d[kind.namespace], key) THEN d[kind.namespace][key] ELSE undefined

\* Every entry but (kind, key) is the same before and after the step
onlyEntryChanged(kind, key) ==
  \A k \in dataKind : \A other \in {"foo", "bar"} :
    (k # kind \/ other # key) =>
      entryOf(heap'[allData'], k, other) = entryOf(heap[allData], k, other)

\* C38: a patch or indirect/patch event whose path is a kind's streamApiPath
\* followed by key K changes at most the store entry (kind, K), whatever key the
\* item of the event or of the response carries.
C38_PatchWritesOnlyItsPath ==
  [][/\ (op'.name = "patch" /\ has(op'.e.data, "json") /\ namedBy(pathOf(op')) # null) =>
          onlyEntryChanged(namedBy(pathOf(op')).kind, namedBy(pathOf(op')).key)
     /\ op'.name = "requestObject" => onlyEntryChanged(op'.req.kind, op'.req.key)]_vars

-----------------------------------------------------------------------------
(* Claims about the client's readiness *)

occurrences(event) == {i \in 1..Len(emitted) : emitted[i] = event}

\* C31: once the client has completed initialisation, a later callback without
\* error emits nothing, and a later error is reported through the error channel
\* only (the error event or the logger): no failed event, no failure recorded.
C31_LaterErrorsOnlyReported ==
  [][(initComplete /\ op'.name = "start_callback") =>
       /\ failure' = failure
       /\ IF truthy(op'.err)
            THEN emitted' \in {emitted, Append(emitted, "error"), Append(emitted, "logger.error")}
            ELSE emitted' = emitted]_vars

\* C39: the client emits ready at most once, and initialized() is false until the
\* first callback without an error and true in every state after it, whatever
\* the later callbacks report.
C39_ReadyOnceAndMonotone ==
  [][/\ initialized_client => initialized_client'
     /\ op'.name = "start_callback" =>
          initialized_client' = (initialized_client \/ ~truthy(op'.err))
     /\ Cardinality({i \in 1..Len(emitted') : emitted'[i] = "ready"}) <= 1
     /\ initialized_client' = (\E i \in 1..Len(emitted') : emitted'[i] = "ready")]_vars

\* after ready, an error and a further success: still one ready, still initialised
C39_Witness ==
  /\ op.name = "start_callback"
  /\ ~truthy(op.err)
  /\ initialized_client
  /\ occurrences("failed") # {}
  /\ \E i \in occurrences("ready") : \E j \in occurrences("failed") : i < j
  /\ Cardinality(occurrences("ready")) = 1

\* C40: once the client has emitted failed it emits no ready and is never
\* initialised afterwards, and the error of a malformed event, which leaves the
\* stream connected, does not make waitForInitialization reject.
C40_FailedExcludesReady ==
  /\ \A i \in occurrences("failed") : \A j \in occurrences("ready") : j < i
  /\ (op.name = "waitForInitialization" /\ result.promise = "rejected") =>
       result.reason # LDStreamingError("Malformed JSON data in event stream", undefined)

====
